---- MODULE Spec2Model ----
(***************************************************************************)
(* Access control and publication workflow of the CDweb site               *)
(* (src/app/main.py, src/app/auth.py).                                     *)
(*                                                                         *)
(* Python values are encoded as strings so that documents of any shape can *)
(* be compared: "true"/"false" are the booleans, "str" a non-empty string, *)
(* "empty" the empty string, "one"/"zero" the integers 1 and 0, "none" is  *)
(* None.  A key that a dict does not hold is simply not in its DOMAIN.     *)
(***************************************************************************)
EXTENDS Integers, FiniteSets, Sequences, TLC

VARIABLES
    users,          \* db.users: email -> stored user document, or NoDoc
    photos,         \* db.photos: id -> document, or NoDoc
    blog_entries,   \* db.blog_entries: id -> document, or NoDoc
    activities,     \* db.activities: id -> document, or NoDoc
    nextId,         \* ids are built from utcnow().timestamp(): never reused
    now,            \* datetime.utcnow()
    phase,          \* "idle", "pending" (a request is in flight) or "served"
    req,            \* the request in flight
    resp,           \* the response to req, once served
    raw,            \* a raw user document handed to the permission functions
    out,            \* what the permission functions returned for raw
    pending_registrations,  \* db.pending_registrations: request id -> document, or NoDoc
    tasks,          \* the handlers running concurrently, each between two awaits
    rejected,       \* history: the request ids whose record admin_delete removed
    cookie          \* request.session of the one browser the login claims follow

vars == <<users, photos, blog_entries, activities, nextId, now, phase, req, resp, raw, out,
          pending_registrations, tasks, rejected, cookie>>

-----------------------------------------------------------------------------
(* Bounds *)

MaxIds == 1         \* content records ever created
MaxTime == 1        \* clock values 0..MaxTime
MaxReqs == 2        \* registration requests ever stored
MaxTasks == 2       \* handlers running at the same time

-----------------------------------------------------------------------------
(* Program constants *)

PERMISSION_KEYS ==
    {"photos", "blog", "activities",
     "photos_supervised", "blog_supervised", "activities_supervised"}

SUPERVISED_PERMISSION_MAP ==
    [photos |-> "photos_supervised",
     blog |-> "blog_supervised",
     activities |-> "activities_supervised"]

Scopes == {"photos", "blog", "activities"}

\* settings.admin_email: the configured administrator, who has no stored document
ADMIN_EMAIL == "admin@cd"

\* the members with a stored user document
Members == {"ana@cd"}

NoDoc == [kind |-> "none"]

Ids == 1..MaxIds
RequestIds == 1..MaxReqs
Tasks == 1..MaxTasks
IdleTask == [pc |-> "idle"]
Times == 0..MaxTime

-----------------------------------------------------------------------------
(* Python truthiness and dict access *)

\* bool(v)
Truthy(v) == v \in {"true", "str", "one"}

PyBool(b) == IF b THEN "true" ELSE "false"

\* d.get(key): None when the key is absent
Get(d, key) == IF key \in DOMAIN d THEN d[key] ELSE "none"

-----------------------------------------------------------------------------
(* Permission model *)

\* A permissions value is [kind |-> "none"] (None, or the key is absent),
\* [kind |-> "map", map |-> f] (a dict) or [kind |-> "scalar", val |-> v]
\* (anything else: a string, a number).

\* `value or {}`: a falsy value is replaced by the empty dict
OrEmptyDict(value) ==
    IF value.kind = "none" THEN [kind |-> "map", map |-> <<>>]
    ELSE IF value.kind = "scalar" /\ ~Truthy(value.val) THEN [kind |-> "map", map |-> <<>>]
    ELSE value

\* permissions.get raises AttributeError on a value that is no dict
_default_permissions_raises(value) == OrEmptyDict(value).kind # "map"

\* {key: bool(permissions.get(key)) for key in PERMISSION_KEYS}
\* (defined where _default_permissions_raises is false)
_default_permissions(value) ==
    LET permissions == OrEmptyDict(value).map
    IN [key \in PERMISSION_KEYS |-> PyBool(Truthy(Get(permissions, key)))]

\* MUTANT: an admin is granted the base flags only
_normalize_user_base_only(user) ==
    IF Truthy(user.is_admin)
    THEN [user EXCEPT !.permissions =
            [kind |-> "map", map |-> [key \in PERMISSION_KEYS |-> PyBool(key \in Scopes)]]]
    ELSE [user EXCEPT !.permissions =
            [kind |-> "map", map |-> _default_permissions(user.permissions)]]

\* (user is a document; defined where nothing raises)
_normalize_user(user) ==
    IF Truthy(user.is_admin)
    THEN [user EXCEPT !.permissions =
            [kind |-> "map", map |-> [key \in PERMISSION_KEYS |-> "true"]]]
    ELSE [user EXCEPT !.permissions =
            [kind |-> "map", map |-> _default_permissions(user.permissions)]]

_has_permission(user, permission) ==
    IF user.kind = "none" THEN FALSE
    ELSE IF Truthy(user.is_admin) THEN TRUE
    ELSE Truthy(Get(_default_permissions(user.permissions), permission))

_has_supervised_permission(user, permission) ==
    IF permission \notin DOMAIN SUPERVISED_PERMISSION_MAP THEN FALSE
    ELSE _has_permission(user, SUPERVISED_PERMISSION_MAP[permission])

\* MUTANT: the supervised flag is not looked at
_has_any_permission_base_only(user, permission) ==
    _has_permission(user, permission)

_has_any_permission(user, permission) ==
    _has_permission(user, permission) \/ _has_supervised_permission(user, permission)

_can_edit_entry(user, permission, author_email) ==
    IF user.kind = "none" THEN FALSE
    ELSE IF Truthy(user.is_admin) \/ _has_permission(user, permission) THEN TRUE
    ELSE author_email # "" /\ author_email = user.email

\* MUTANT: the supervised flag is enough to manage a scope
_can_manage_scope_supervised(user, scope) ==
    IF user.kind = "none" THEN FALSE
    ELSE IF Truthy(user.is_admin) THEN TRUE
    ELSE _has_any_permission(user, scope)

_can_manage_scope(user, scope) ==
    IF user.kind = "none" THEN FALSE
    ELSE IF Truthy(user.is_admin) THEN TRUE
    ELSE _has_permission(user, scope)

-----------------------------------------------------------------------------
(* Requests, sessions and the store *)

\* request.session["user_email"]: "" when there is no session.  A session is
\* set by login_submit only, for the administrator or a stored member, and
\* outlives the deletion of the member's document.
Sessions == {""} \union {ADMIN_EMAIL} \union Members

\* the emails of people who have no account yet
Applicants == {"bea@cd"}

Emails == {ADMIN_EMAIL} \union Members \union Applicants

SubmissionActions == {"review", "publish", "none"}   \* form field submission_action
Checkbox == {"on", "none"}                           \* form field is_hidden
Visibility == {"hide", "show"}                       \* form field visibility
Titles == {"t1", "t2"}                               \* form field name / title
DateInputs == {"none", "d0"}                         \* form field published_at

\* datetime.fromisoformat: "d0" is the ISO text of time 0; -1 stands for ValueError
ParseDate(published_at) == IF published_at = "d0" THEN 0 ELSE -1

\* MUTANT: the session alone makes a principal: a session whose user document
\* is gone resolves to a user without permissions
get_current_user_stale(session) ==
    IF session = "" THEN NoDoc
    ELSE IF ADMIN_EMAIL # "" /\ session = ADMIN_EMAIL
    THEN _normalize_user([kind |-> "doc", email |-> session, is_admin |-> "true",
                        permissions |-> [kind |-> "none"]])
    ELSE IF users[session] = NoDoc
    THEN _normalize_user([kind |-> "doc", email |-> session, is_admin |-> "false",
                        permissions |-> [kind |-> "none"]])
    ELSE _normalize_user(users[session])

get_current_user(session) ==
    IF session = "" THEN NoDoc
    ELSE IF ADMIN_EMAIL # "" /\ session = ADMIN_EMAIL
    THEN _normalize_user([kind |-> "doc", email |-> session, is_admin |-> "true",
                        permissions |-> [kind |-> "none"]])
    ELSE IF users[session] = NoDoc THEN NoDoc
    ELSE _normalize_user(users[session])

\* the collection a scope is stored in
Coll(scope) ==
    CASE scope = "photos" -> photos
      [] scope = "blog" -> blog_entries
      [] scope = "activities" -> activities

\* the field holding the creator's email: uploaded_by in photos, author_email elsewhere
AuthorOf(scope, doc) ==
    IF scope = "photos" THEN doc.uploaded_by ELSE doc.author_email

\* the timestamp field: uploaded_at in photos, published_at elsewhere
StampOf(scope, doc) ==
    IF scope = "photos" THEN doc.uploaded_at ELSE doc.published_at

\* find_one({"_id": id})
FindOne(coll, id) == IF id \in DOMAIN coll THEN coll[id] ELSE NoDoc

\* MUTANT: update_one with upsert=True makes the document when none matches
UpdateOneUpsert(coll, id, updates) ==
    IF id \notin DOMAIN coll THEN coll
    ELSE IF coll[id] = NoDoc
    THEN [coll EXCEPT ![id] =
            [k \in DOMAIN updates \union {"kind"} |->
                IF k = "kind" THEN "doc" ELSE updates[k]]]
    ELSE [coll EXCEPT ![id] =
            [k \in DOMAIN coll[id] \union DOMAIN updates |->
                IF k \in DOMAIN updates THEN updates[k] ELSE coll[id][k]]]

\* MUTANT: the filter is lost and every document of the collection is updated
UpdateMany(coll, id, updates) ==
    [i \in DOMAIN coll |->
        IF coll[i] = NoDoc THEN NoDoc
        ELSE [k \in DOMAIN coll[i] \union DOMAIN updates |->
                IF k \in DOMAIN updates THEN updates[k] ELSE coll[i][k]]]

\* update_one({"_id": id}, {"$set": updates}): nothing happens when no document matches
UpdateOne(coll, id, updates) ==
    IF FindOne(coll, id) = NoDoc THEN coll
    ELSE [coll EXCEPT ![id] =
            [k \in DOMAIN coll[id] \union DOMAIN updates |->
                IF k \in DOMAIN updates THEN updates[k] ELSE coll[id][k]]]

\* delete_one({"_id": id})
DeleteOne(coll, id) ==
    IF FindOne(coll, id) = NoDoc THEN coll ELSE [coll EXCEPT ![id] = NoDoc]

\* insert_one
InsertOne(coll, id, doc) == [coll EXCEPT ![id] = doc]

\* a request: which handler its path and method route to, and its inputs
Request(handler, session, scope, id, title, arg, date, target, form) ==
    [handler |-> handler, session |-> session, scope |-> scope, id |-> id,
     title |-> title, arg |-> arg, date |-> date, target |-> target, form |-> form]

NoRequest == Request("none", "", "none", 0, "none", "none", "none", "", {})

\* the store as a handler finds it
Store ==
    [users |-> users, photos |-> photos, blog_entries |-> blog_entries,
     activities |-> activities]

NoResponse == [status |-> "none", seen |-> {}, created |-> 0, before |-> <<>>]

NoRaw == [kind |-> "none"]

\* request.session before any login, and after request.session.clear(); via is
\* history: which branch of authenticate_user established the session
NoCookie == [user_email |-> "", is_admin |-> FALSE, via |-> "none"]
NoOut == [fn |-> "none"]

\* the handler returns (or raises HTTPException): the response is the status,
\* the ids of the records the page shows and the id of the record created;
\* before keeps the store as it was when the handler started
RespondWith(status, seen, created) ==
    /\ phase' = "served"
    /\ resp' = [status |-> status, seen |-> seen, created |-> created, before |-> Store]
    /\ UNCHANGED <<req, raw, out, pending_registrations, tasks, rejected, cookie>>

Respond(status, seen) == RespondWith(status, seen, 0)

\* MUTANT: the pages that show records are open to requests without session
ConstructionStopsWrites(r) ==
    /\ r.session = ""
    /\ r.handler \notin {"index", "astrofotos", "blog", "activities",
                         "astrofoto_detail", "blog_detail", "activities_detail"}

\* construction_guard stops a request that carries no session["user_email"],
\* unless its path is in CONSTRUCTION_ALLOWED_PATHS, is /favicon.ico or starts
\* with /static (no path of the handlers routed here is one of those)
ConstructionStops(r) == r.session = ""

\* the handler of req is h and the construction guard lets the request through
Routed(h) ==
    /\ phase = "pending"
    /\ req.handler = h
    /\ ~ConstructionStops(req)

\* construction_guard: a request without session gets the construction page
\* (none of the paths modelled is in CONSTRUCTION_ALLOWED_PATHS or under /static)
construction_guard ==
    /\ phase = "pending"
    /\ ConstructionStops(req)
    /\ Respond("construction", {})
    /\ UNCHANGED <<users, photos, blog_entries, activities, nextId, now>>

Unchanged(scope) ==
    CASE scope = "photos" -> UNCHANGED <<blog_entries, activities>>
      [] scope = "blog" -> UNCHANGED <<photos, activities>>
      [] scope = "activities" -> UNCHANGED <<photos, blog_entries>>

SetColl(scope, coll) ==
    /\ CASE scope = "photos" -> photos' = coll
         [] scope = "blog" -> blog_entries' = coll
         [] scope = "activities" -> activities' = coll
    /\ Unchanged(scope)

-----------------------------------------------------------------------------
(* Create *)

\* MUTANT: the intent alone decides
ShouldPublishIntentOnly(user, scope, submission_action) ==
    submission_action # "review"

\* should_publish = bool(submission_action != "review" and _has_permission(user, scope))
ShouldPublish(user, scope, submission_action) ==
    submission_action # "review" /\ _has_permission(user, scope)

\* blog_new and activities_new, the create forms, share their code but for the
\* scope; the upload form of the photos has no route of its own
PublicationNew(scope) ==
    LET user == get_current_user(req.session) IN
    /\ IF user.kind = "none" \/ ~_has_any_permission(user, scope)
       THEN Respond("403", {})
       ELSE Respond("200", {})
    /\ UNCHANGED <<users, photos, blog_entries, activities, nextId, now>>

blog_new == Routed("blog_new") /\ PublicationNew("blog")

activities_new == Routed("activities_new") /\ PublicationNew("activities")

\* astrofotos_upload
astrofotos_upload ==
    LET user == get_current_user(req.session) IN
    /\ Routed("astrofotos_upload")
    /\ IF user.kind = "none" \/ ~_has_any_permission(user, "photos")
       THEN /\ Respond("403", {})
            /\ UNCHANGED <<photos, nextId>>
       ELSE /\ nextId <= MaxIds
            /\ photos' = InsertOne(photos, nextId,
                  [kind |-> "doc", name |-> req.title, uploaded_at |-> now,
                   uploaded_by |-> user.email,
                   is_hidden |-> ~ShouldPublish(user, "photos", req.arg)])
            /\ nextId' = nextId + 1
            /\ RespondWith("303", {}, nextId)
    /\ UNCHANGED <<users, blog_entries, activities, now>>

\* blog_new_submit and activities_new_submit share their code but for the collection
PublicationNewSubmit(scope) ==
    LET user == get_current_user(req.session) IN
    /\ IF user.kind = "none" \/ ~_has_any_permission(user, scope)
       THEN /\ Respond("403", {})
            /\ UNCHANGED <<photos, blog_entries, activities, nextId>>
       ELSE /\ nextId <= MaxIds
            /\ SetColl(scope, InsertOne(Coll(scope), nextId,
                  [kind |-> "doc", title |-> req.title, published_at |-> now,
                   author_email |-> user.email,
                   is_hidden |-> ~ShouldPublish(user, scope, req.arg)]))
            /\ nextId' = nextId + 1
            /\ RespondWith("303", {}, nextId)
    /\ UNCHANGED <<users, now>>

blog_new_submit == Routed("blog_new_submit") /\ PublicationNewSubmit("blog")

activities_new_submit ==
    Routed("activities_new_submit") /\ PublicationNewSubmit("activities")

-----------------------------------------------------------------------------
(* Edit *)

\* the checks shared by the edit form, the edit submission and the owner's
\* delete of a scope: "403" without user, "404" without document, "403" without
\* any permission of the scope or when _can_edit_entry fails, else "ok"
\* MUTANT: the check of the scope's permissions is lost
EditGateAuthorOnly(user, scope, id) ==
    IF user.kind = "none" THEN "403"
    ELSE IF FindOne(Coll(scope), id) = NoDoc THEN "404"
    ELSE IF ~_can_edit_entry(user, scope, AuthorOf(scope, Coll(scope)[id])) THEN "403"
    ELSE "ok"

EditGate(user, scope, id) ==
    IF user.kind = "none" THEN "403"
    ELSE IF FindOne(Coll(scope), id) = NoDoc THEN "404"
    ELSE IF ~_has_any_permission(user, scope) THEN "403"
    ELSE IF ~_can_edit_entry(user, scope, AuthorOf(scope, Coll(scope)[id])) THEN "403"
    ELSE "ok"

\* astrofotos_edit, blog_edit, activities_edit: the edit form
EditForm(scope) ==
    LET user == get_current_user(req.session)
        gate == EditGate(user, scope, req.id) IN
    /\ IF gate = "ok" THEN Respond("200", {req.id}) ELSE Respond(gate, {})
    /\ UNCHANGED <<users, photos, blog_entries, activities, nextId, now>>

astrofotos_edit == Routed("astrofotos_edit") /\ EditForm("photos")
blog_edit == Routed("blog_edit") /\ EditForm("blog")
activities_edit == Routed("activities_edit") /\ EditForm("activities")

\* the $set document of astrofotos_edit_submit: is_hidden is written only for
\* a holder of the photos permission
\* MUTANT: the edit of a photo never writes is_hidden
PhotoEditUpdatesNameOnly(user, name, is_hidden) == [name |-> name]

PhotoEditUpdates(user, name, is_hidden) ==
    IF _has_permission(user, "photos")
    THEN [name |-> name, is_hidden |-> (is_hidden = "on")]
    ELSE [name |-> name]

\* astrofotos_edit_submit
astrofotos_edit_submit ==
    LET user == get_current_user(req.session)
        gate == EditGate(user, "photos", req.id) IN
    /\ Routed("astrofotos_edit_submit")
    /\ IF gate # "ok"
       THEN /\ Respond(gate, {})
            /\ UNCHANGED photos
       ELSE /\ photos' = UpdateOne(photos, req.id,
                              PhotoEditUpdates(user, req.title, req.arg))
            /\ Respond("303", {})
    /\ UNCHANGED <<users, blog_entries, activities, nextId, now>>

\* MUTANT: the requested is_hidden is stored whoever sends it
PublicationEditHiddenAnyone(user, scope, is_hidden) == is_hidden = "on"

\* the is_hidden value blog_edit_submit and activities_edit_submit store
PublicationEditHidden(user, scope, is_hidden) ==
    IF _has_permission(user, scope) THEN is_hidden = "on" ELSE TRUE

\* MUTANT: the edit-save signs the entry with the email of the editor
PublicationEditUpdatesSigned(user, scope, title, is_hidden, published_at) ==
    [title |-> title, is_hidden |-> PublicationEditHidden(user, scope, is_hidden),
     author_email |-> user.email]

\* the $set document of blog_edit_submit and activities_edit_submit; published_at
\* is written for an is_admin user who sent a date
PublicationEditUpdates(user, scope, title, is_hidden, published_at) ==
    LET base == [title |-> title,
                 is_hidden |-> PublicationEditHidden(user, scope, is_hidden)]
    IN IF Truthy(user.is_admin) /\ published_at # "none"
       THEN [k \in DOMAIN base \union {"published_at"} |->
                IF k = "published_at" THEN ParseDate(published_at) ELSE base[k]]
       ELSE base

\* blog_edit_submit and activities_edit_submit share their code but for the collection
PublicationEditSubmit(scope) ==
    LET user == get_current_user(req.session)
        gate == EditGate(user, scope, req.id) IN
    /\ IF gate # "ok"
       THEN /\ Respond(gate, {})
            /\ UNCHANGED <<photos, blog_entries, activities>>
       ELSE /\ SetColl(scope, UpdateOne(Coll(scope), req.id,
                  PublicationEditUpdates(user, scope, req.title, req.arg, req.date)))
            /\ Respond("303", {})
    /\ UNCHANGED <<users, nextId, now>>

blog_edit_submit == Routed("blog_edit_submit") /\ PublicationEditSubmit("blog")

activities_edit_submit ==
    Routed("activities_edit_submit") /\ PublicationEditSubmit("activities")

-----------------------------------------------------------------------------
(* Publish, delete, visibility toggle *)

\* MUTANT: the supervised flag is enough to publish
PublishAllowedAny(user, scope) ==
    user.kind # "none" /\ _has_any_permission(user, scope)

\* the guard of blog_publish and activities_publish
PublishAllowed(user, scope) ==
    user.kind # "none" /\ _has_permission(user, scope)

\* blog_publish and activities_publish share their code but for the collection
PublicationPublish(scope) ==
    LET user == get_current_user(req.session) IN
    /\ IF ~PublishAllowed(user, scope)
       THEN /\ Respond("403", {})
            /\ UNCHANGED <<photos, blog_entries, activities>>
       ELSE /\ SetColl(scope, UpdateOne(Coll(scope), req.id, [is_hidden |-> FALSE]))
            /\ Respond("303", {})
    /\ UNCHANGED <<users, nextId, now>>

blog_publish == Routed("blog_publish") /\ PublicationPublish("blog")
activities_publish == Routed("activities_publish") /\ PublicationPublish("activities")

\* blog_delete and activities_delete share their code but for the collection
PublicationDelete(scope) ==
    LET user == get_current_user(req.session)
        gate == EditGate(user, scope, req.id) IN
    /\ IF gate # "ok"
       THEN /\ Respond(gate, {})
            /\ UNCHANGED <<photos, blog_entries, activities>>
       ELSE /\ SetColl(scope, DeleteOne(Coll(scope), req.id))
            /\ Respond("303", {})
    /\ UNCHANGED <<users, nextId, now>>

blog_delete == Routed("blog_delete") /\ PublicationDelete("blog")
activities_delete == Routed("activities_delete") /\ PublicationDelete("activities")

\* MUTANT: the toggle stores the opposite of the request
ToggleUpdatesInverted(scope, visibility) ==
    [is_hidden |-> ~(visibility = "hide")]

\* the $set document of content_toggle_visibility: published_at is refreshed
\* when a blog entry or an activity is shown
\* MUTANT: showing an entry does not refresh published_at
ToggleUpdatesNoStamp(scope, visibility) == [is_hidden |-> (visibility = "hide")]

ToggleUpdates(scope, visibility) ==
    LET is_hidden == (visibility = "hide") IN
    IF scope = "photos" \/ is_hidden
    THEN [is_hidden |-> is_hidden]
    ELSE [is_hidden |-> is_hidden, published_at |-> now]

\* content_toggle_visibility (req.scope is one of the three collections' scopes)
content_toggle_visibility ==
    LET user == get_current_user(req.session) IN
    /\ Routed("content_toggle_visibility")
    /\ IF ~_can_manage_scope(user, req.scope)
       THEN /\ Respond("403", {})
            /\ UNCHANGED <<photos, blog_entries, activities>>
       ELSE /\ SetColl(req.scope, UpdateOne(Coll(req.scope), req.id,
                                           ToggleUpdates(req.scope, req.arg)))
            /\ Respond("303", {})
    /\ UNCHANGED <<users, nextId, now>>

\* content_delete (req.scope is one of the three collections' scopes)
content_delete ==
    LET user == get_current_user(req.session) IN
    /\ Routed("content_delete")
    /\ IF ~_can_manage_scope(user, req.scope)
       THEN /\ Respond("403", {})
            /\ UNCHANGED <<photos, blog_entries, activities>>
       ELSE /\ SetColl(req.scope, DeleteOne(Coll(req.scope), req.id))
            /\ Respond("303", {})
    /\ UNCHANGED <<users, nextId, now>>

-----------------------------------------------------------------------------
(* Views and listings: resp.seen holds the ids of the records the page shows *)

\* astrofoto_detail answers 404 for `photo.get("is_hidden") and not user`
PhotoDetailHidden(user, photo) == photo.is_hidden /\ user.kind = "none"

\* astrofoto_detail
astrofoto_detail ==
    LET user == get_current_user(req.session)
        photo == FindOne(photos, req.id) IN
    /\ Routed("astrofoto_detail")
    /\ IF photo = NoDoc THEN Respond("404", {})
       ELSE IF PhotoDetailHidden(user, photo) THEN Respond("404", {})
       ELSE Respond("200", {req.id})
    /\ UNCHANGED <<users, photos, blog_entries, activities, nextId, now>>

\* blog_detail and activities_detail answer 404 for a hidden entry unless
\* can_manage or is_owner
\* MUTANT: the owner of a hidden entry is not let through
PublicationDetailHiddenManagerOnly(user, scope, entry) ==
    entry.is_hidden /\ ~(user.kind # "none" /\ _has_permission(user, scope))

PublicationDetailHidden(user, scope, entry) ==
    entry.is_hidden
    /\ ~( (user.kind # "none" /\ _has_permission(user, scope))
          \/ (user.kind # "none" /\ entry.author_email = user.email) )

\* blog_detail and activities_detail share their code but for the collection
PublicationDetail(scope) ==
    LET user == get_current_user(req.session)
        entry == FindOne(Coll(scope), req.id) IN
    /\ IF entry = NoDoc THEN Respond("404", {})
       ELSE IF PublicationDetailHidden(user, scope, entry) THEN Respond("404", {})
       ELSE Respond("200", {req.id})
    /\ UNCHANGED <<users, photos, blog_entries, activities, nextId, now>>

blog_detail == Routed("blog_detail") /\ PublicationDetail("blog")
activities_detail == Routed("activities_detail") /\ PublicationDetail("activities")

\* find(_photo_filter(include_hidden)) / find(_publication_filter(include_hidden))
Find(coll, include_hidden) ==
    {id \in DOMAIN coll : coll[id] # NoDoc /\ (include_hidden \/ ~coll[id].is_hidden)}

\* the drafts the blog and activities pages list: every hidden entry for a
\* holder of the scope's permission, the user's own otherwise, none without user
Drafts(user, scope) ==
    IF user.kind = "none" THEN {}
    ELSE {id \in DOMAIN Coll(scope) :
            /\ Coll(scope)[id] # NoDoc
            /\ Coll(scope)[id].is_hidden
            /\ (_has_permission(user, scope) \/ Coll(scope)[id].author_email = user.email)}

\* the records of a collection created by an email (the profile page's queries)
OwnDocs(scope, email) ==
    {id \in DOMAIN Coll(scope) :
        Coll(scope)[id] # NoDoc /\ AuthorOf(scope, Coll(scope)[id]) = email}

\* index: recent photos with include_hidden=bool(user), published entries and activities
index ==
    LET user == get_current_user(req.session) IN
    /\ Routed("index")
    /\ Respond("200", Find(photos, user.kind # "none") \union Find(blog_entries, FALSE)
                          \union Find(activities, FALSE))
    /\ UNCHANGED <<users, photos, blog_entries, activities, nextId, now>>

\* astrofotos: the gallery, with include_hidden=bool(user)
astrofotos ==
    LET user == get_current_user(req.session) IN
    /\ Routed("astrofotos")
    /\ Respond("200", Find(photos, user.kind # "none"))
    /\ UNCHANGED <<users, photos, blog_entries, activities, nextId, now>>

\* blog and activities (the list pages) share their code but for the collection
PublicationList(scope) ==
    LET user == get_current_user(req.session) IN
    /\ Respond("200", Find(Coll(scope), FALSE) \union Drafts(user, scope))
    /\ UNCHANGED <<users, photos, blog_entries, activities, nextId, now>>

blog == Routed("blog") /\ PublicationList("blog")
activities_page == Routed("activities") /\ PublicationList("activities")

\* the dict _ensure_user_profile hands to _normalize_user: the stored document
\* of the user, or a blank profile when there is none
EnsuredProfile(user) ==
    IF users[user.email] # NoDoc THEN users[user.email]
    ELSE [kind |-> "doc", email |-> user.email,
          is_admin |-> PyBool(Truthy(user.is_admin)),
          permissions |-> [kind |-> "map", map |-> _default_permissions([kind |-> "none"])]]

\* the dict given to _normalize_user as the call leaves it: the function
\* assigns to a copy, normalized = dict(user)
NormalizedArgument(user) == user

\* profile: _ensure_user_profile normalizes the stored document (raw is the
\* dict it handed over, out what it got back), then the page shows the user's
\* own records of the three collections
profile ==
    LET user == get_current_user(req.session) IN
    /\ Routed("profile")
    /\ IF user.kind = "none" THEN Respond("403", {})
       ELSE /\ phase' = "served"
            /\ resp' = [status |-> "200",
                        seen |-> OwnDocs("photos", user.email)
                                    \union OwnDocs("blog", user.email)
                                    \union OwnDocs("activities", user.email),
                        created |-> 0, before |-> Store]
            /\ raw' = NormalizedArgument(EnsuredProfile(user))
            /\ out' = [fn |-> "_normalize_user", error |-> FALSE,
                       user |-> _normalize_user(EnsuredProfile(user))]
            /\ UNCHANGED <<req, pending_registrations, tasks, rejected, cookie>>
    /\ UNCHANGED <<users, photos, blog_entries, activities, nextId, now>>

\* MUTANT: the profile is saved with the permissions of the request's user
ProfileUpsertNormalized(coll, user) ==
    IF coll[user.email] = NoDoc
    THEN [coll EXCEPT ![user.email] =
            [kind |-> "doc", email |-> user.email, full_name |-> "str",
             is_admin |-> PyBool(Truthy(user.is_admin)), permissions |-> user.permissions]]
    ELSE UpdateOne(coll, user.email, [full_name |-> "str", permissions |-> user.permissions])

\* update_one({"email": email}, {"$set": {full_name, location, bio},
\* "$setOnInsert": {is_admin}}, upsert=True): the document made when none
\* matches holds no permissions
ProfileUpsert(coll, user) ==
    IF coll[user.email] = NoDoc
    THEN [coll EXCEPT ![user.email] =
            [kind |-> "doc", email |-> user.email, full_name |-> "str",
             is_admin |-> PyBool(Truthy(user.is_admin)), permissions |-> [kind |-> "none"]]]
    ELSE UpdateOne(coll, user.email, [full_name |-> "str"])

\* profile_update
profile_update ==
    LET user == get_current_user(req.session) IN
    /\ Routed("profile_update")
    /\ IF user.kind = "none"
       THEN /\ Respond("403", {})
            /\ UNCHANGED users
       ELSE /\ users' = ProfileUpsert(users, user)
            /\ Respond("303", {})
    /\ UNCHANGED <<photos, blog_entries, activities, nextId, now>>

\* content_management: hidden and published records of the scopes the user manages
content_management ==
    LET user == get_current_user(req.session)
        allowed_scopes ==
            IF user.kind # "none" /\ Truthy(user.is_admin) THEN Scopes
            ELSE {scope \in Scopes : _can_manage_scope(user, scope)} IN
    /\ Routed("content_management")
    /\ IF user.kind = "none"
          \/ ~(Truthy(user.is_admin) \/ \E scope \in Scopes : _has_permission(user, scope))
       THEN Respond("403", {})
       ELSE Respond("200", UNION {Find(Coll(scope), TRUE) : scope \in allowed_scopes})
    /\ UNCHANGED <<users, photos, blog_entries, activities, nextId, now>>

-----------------------------------------------------------------------------
(* Administration of users *)

\* the permission forms an administrator sends, as the set of the boxes ticked:
\* none, any boxes of one scope, every base box, every supervised box, all
PermissionForms ==
    {{}} \union {{scope} : scope \in Scopes}
         \union {{SUPERVISED_PERMISSION_MAP[scope]} : scope \in Scopes}
         \union {{scope, SUPERVISED_PERMISSION_MAP[scope]} : scope \in Scopes}
         \union {Scopes, PERMISSION_KEYS \ Scopes, PERMISSION_KEYS}

\* MUTANT: any user who is logged in passes
require_admin_any_user(user) == user.kind # "none"

require_admin(user) == user.kind # "none" /\ Truthy(user.is_admin)

\* admin_update_permissions: user_id names the document of req.target
admin_update_permissions ==
    LET user == get_current_user(req.session) IN
    /\ Routed("admin_update_permissions")
    /\ IF ~require_admin(user)
       THEN /\ Respond("403", {})
            /\ UNCHANGED users
       ELSE /\ users' = UpdateOne(users, req.target,
                  [permissions |-> [kind |-> "map",
                      map |-> [key \in PERMISSION_KEYS |-> PyBool(key \in req.form)]]])
            /\ Respond("303", {})
    /\ UNCHANGED <<photos, blog_entries, activities, nextId, now>>

\* admin_user_delete: user_id names the document of req.target
admin_user_delete ==
    LET user == get_current_user(req.session) IN
    /\ Routed("admin_user_delete")
    /\ IF ~require_admin(user)
       THEN /\ Respond("403", {})
            /\ UNCHANGED users
       ELSE /\ users' = DeleteOne(users, req.target)
            /\ Respond("303", {})
    /\ UNCHANGED <<photos, blog_entries, activities, nextId, now>>

-----------------------------------------------------------------------------
(* The site: requests arrive one at a time, from any session, in any order *)

Ident(h, session) == Request(h, session, "none", 0, "none", "none", "none", "", {})

Requests ==
    {Request(h, session, "none", 0, t, a, "none", "", {}) :
        h \in {"astrofotos_upload", "blog_new_submit", "activities_new_submit"},
        session \in Sessions, t \in Titles, a \in SubmissionActions}
    \union
    {Request(h, session, "none", id, "none", "none", "none", "", {}) :
        h \in {"astrofotos_edit", "blog_edit", "activities_edit",
               "blog_publish", "activities_publish", "blog_delete", "activities_delete",
               "astrofoto_detail", "blog_detail", "activities_detail"},
        session \in Sessions, id \in Ids}
    \union
    {Request("astrofotos_edit_submit", session, "none", id, t, a, "none", "", {}) :
        session \in Sessions, id \in Ids, t \in Titles, a \in Checkbox}
    \union
    {Request(h, session, "none", id, t, a, d, "", {}) :
        h \in {"blog_edit_submit", "activities_edit_submit"},
        session \in Sessions, id \in Ids, t \in Titles, a \in Checkbox, d \in DateInputs}
    \union
    {Request("content_toggle_visibility", session, scope, id, "none", a, "none", "", {}) :
        session \in Sessions, scope \in Scopes, id \in Ids, a \in Visibility}
    \union
    {Request("content_delete", session, scope, id, "none", "none", "none", "", {}) :
        session \in Sessions, scope \in Scopes, id \in Ids}
    \union
    {Ident(h, session) :
        h \in {"index", "astrofotos", "blog", "activities", "profile",
               "content_management", "blog_new", "activities_new"},
        session \in Sessions}
    \union
    {Request("admin_update_permissions", session, "none", 0, "none", "none", "none",
             target, form) :
        session \in Sessions, target \in Members, form \in PermissionForms}
    \union
    {Request("admin_user_delete", session, "none", 0, "none", "none", "none", target, {}) :
        session \in Sessions, target \in Members}

\* the scope a handler works on (the path names it for the management console)
ScopeOf(r) ==
    CASE r.handler \in {"astrofotos_upload", "astrofotos_edit", "astrofotos_edit_submit",
                        "astrofoto_detail", "astrofotos"} -> "photos"
      [] r.handler \in {"blog_new", "blog_new_submit", "blog_edit", "blog_edit_submit", "blog_publish",
                        "blog_delete", "blog_detail", "blog"} -> "blog"
      [] r.handler \in {"activities_new", "activities_new_submit", "activities_edit",
                        "activities_edit_submit", "activities_publish",
                        "activities_delete", "activities_detail", "activities"}
            -> "activities"
      [] OTHER -> r.scope

\* a request arrives and is routed
Receive(r) ==
    /\ phase = "idle"
    /\ phase' = "pending"
    /\ req' = [r EXCEPT !.scope = ScopeOf(r)]
    /\ resp' = NoResponse
    /\ UNCHANGED <<users, photos, blog_entries, activities, nextId, now, raw, out, pending_registrations, tasks, rejected, cookie>>

\* the response is sent
Done ==
    /\ phase = "served"
    /\ phase' = "idle"
    /\ req' = NoRequest
    /\ resp' = NoResponse
    /\ raw' = NoRaw
    /\ out' = NoOut
    /\ UNCHANGED <<users, photos, blog_entries, activities, nextId, now, pending_registrations, tasks, rejected, cookie>>

\* the clock advances
Tick ==
    /\ phase = "idle"
    /\ now < MaxTime
    /\ now' = now + 1
    /\ UNCHANGED <<users, photos, blog_entries, activities, nextId, phase, req, resp,
                   raw, out, pending_registrations, tasks, rejected, cookie>>

\* auth.create_user / admin_approve: a new member holds no permission
NewUser(email) ==
    [kind |-> "doc", email |-> email, is_admin |-> "false",
     permissions |-> [kind |-> "map", map |-> [key \in PERMISSION_KEYS |-> "false"]]]

Init ==
    /\ users = [e \in Emails |-> IF e \in Members THEN NewUser(e) ELSE NoDoc]
    /\ photos = [id \in Ids |-> NoDoc]
    /\ blog_entries = [id \in Ids |-> NoDoc]
    /\ activities = [id \in Ids |-> NoDoc]
    /\ nextId = 1
    /\ now = 0
    /\ phase = "idle"
    /\ req = NoRequest
    /\ resp = NoResponse
    /\ raw = NoRaw
    /\ out = NoOut
    /\ pending_registrations = [id \in RequestIds |-> NoDoc]
    /\ tasks = [t \in Tasks |-> IdleTask]
    /\ rejected = {}
    /\ cookie = NoCookie

Next ==
    \/ \E r \in Requests : Receive(r)
    \/ construction_guard
    \/ blog_new
    \/ activities_new
    \/ astrofotos_upload
    \/ blog_new_submit
    \/ activities_new_submit
    \/ astrofotos_edit
    \/ blog_edit
    \/ activities_edit
    \/ astrofotos_edit_submit
    \/ blog_edit_submit
    \/ activities_edit_submit
    \/ blog_publish
    \/ activities_publish
    \/ blog_delete
    \/ activities_delete
    \/ content_toggle_visibility
    \/ content_delete
    \/ astrofoto_detail
    \/ blog_detail
    \/ activities_detail
    \/ index
    \/ astrofotos
    \/ blog
    \/ activities_page
    \/ profile
    \/ content_management
    \/ admin_update_permissions
    \/ admin_user_delete
    \/ Done
    \/ Tick

Spec == Init /\ [][Next]_vars

-----------------------------------------------------------------------------
(* The permission functions on any stored user document *)

MaxKeys == 2        \* keys of a malformed permissions dict

RawValues == {"true", "false", "str", "empty", "one", "zero", "none"}

\* the dicts a permissions field may hold: up to MaxKeys keys (one of them not
\* a permission key) with any values, or the six flags as the admin form writes them
RawMaps ==
    UNION {[D -> RawValues] :
              D \in {K \in SUBSET (PERMISSION_KEYS \union {"extra"}) : Cardinality(K) <= MaxKeys}}
    \union [PERMISSION_KEYS -> {"true", "false"}]

RawPermissions ==
    {[kind |-> "none"]}
    \union {[kind |-> "scalar", val |-> v] : v \in {"str", "empty", "one", "zero"}}
    \union {[kind |-> "map", map |-> m] : m \in RawMaps}

\* None, or a document of db.users
RawUsers ==
    {NoDoc} \union
    {[kind |-> "doc", email |-> "ana@cd", is_admin |-> a, permissions |-> p] :
        a \in {"true", "false", "none", "str", "zero"}, p \in RawPermissions}

\* _normalize_user raises when _default_permissions does
_normalize_user_raises(user) ==
    ~Truthy(user.is_admin) /\ _default_permissions_raises(user.permissions)

\* _normalize_user(raw)
normalize_user ==
    /\ raw.kind = "doc"
    /\ out' = IF _normalize_user_raises(raw)
              THEN [fn |-> "_normalize_user", error |-> TRUE]
              ELSE [fn |-> "_normalize_user", error |-> FALSE,
                    user |-> _normalize_user(raw)]
    /\ UNCHANGED <<users, photos, blog_entries, activities, nextId, now, phase, req,
                   resp, raw, pending_registrations, tasks, rejected, cookie>>

\* the permission checks on the principal get_current_user makes of raw, for a
\* scope and a record's author
check_permissions(scope, author_email) ==
    /\ out' = IF raw.kind = "doc" /\ _normalize_user_raises(raw)
              THEN [fn |-> "checks", error |-> TRUE]
              ELSE LET user == IF raw.kind = "doc" THEN _normalize_user(raw) ELSE NoDoc IN
                   [fn |-> "checks", error |-> FALSE,
                    scope |-> scope, author_email |-> author_email,
                    has |-> _has_permission(user, scope),
                    supervised |-> _has_supervised_permission(user, scope),
                    any |-> _has_any_permission(user, scope),
                    manage |-> _can_manage_scope(user, scope),
                    edit |-> _can_edit_entry(user, scope, author_email)]
    /\ UNCHANGED <<users, photos, blog_entries, activities, nextId, now, phase, req,
                   resp, raw, pending_registrations, tasks, rejected, cookie>>

InitNorm ==
    /\ users = [e \in Emails |-> IF e \in Members THEN NewUser(e) ELSE NoDoc]
    /\ photos = [id \in Ids |-> NoDoc]
    /\ blog_entries = [id \in Ids |-> NoDoc]
    /\ activities = [id \in Ids |-> NoDoc]
    /\ nextId = 1
    /\ now = 0
    /\ phase = "idle"
    /\ req = NoRequest
    /\ resp = NoResponse
    /\ raw \in RawUsers
    /\ out = NoOut
    /\ pending_registrations = [id \in RequestIds |-> NoDoc]
    /\ tasks = [t \in Tasks |-> IdleTask]
    /\ rejected = {}
    /\ cookie = NoCookie

NextNorm ==
    \/ normalize_user
    \/ \E scope \in Scopes, author_email \in {"ana@cd", "bea@cd"} :
          check_permissions(scope, author_email)

SpecNorm == InitNorm /\ [][NextNorm]_vars

-----------------------------------------------------------------------------
(* Handlers running concurrently.  A handler gives way to the others at each *)
(* await of a database call, so a task advances by one database call per     *)
(* step; what it read before stays in its task record.                       *)

\* a task that has answered keeps its answer for one state only
Retired == [t \in Tasks |-> IF tasks[t].pc = "done" THEN IdleTask ELSE tasks[t]]

\* task t can take a new request
Free(t) == tasks[t].pc \in {"idle", "done"}

\* task t goes on as the record task
Step(t, task) == tasks' = [Retired EXCEPT ![t] = task]

AllStores ==
    [users |-> users, pending_registrations |-> pending_registrations,
     photos |-> photos, blog_entries |-> blog_entries, activities |-> activities]

\* the handler of call answers: before is the store at its last database call
Finish(call, status, notice) ==
    [pc |-> "done", status |-> status, notice |-> notice, before |-> AllStores] @@ call

-----------------------------------------------------------------------------
(* Registration admission flow *)

Passwords == {"p1", "p2"}

\* what a call of send_email does: it returns at once when settings.smtp_host
\* is unset ("skipped"); otherwise it sends the message ("sent") or lets the
\* exception of smtplib through (no server, refused login: "raised")
SendOutcomes == {"skipped", "sent", "raised"}

\* bcrypt.hash
Hash(password) ==
    CASE password = "p1" -> "h1"
      [] password = "p2" -> "h2"
      [] password = "temporal" -> "htemporal"

\* find_one({"email": email})
FindByEmail(coll, email) ==
    IF \E id \in DOMAIN coll : coll[id] # NoDoc /\ coll[id].email = email
    THEN coll[CHOOSE id \in DOMAIN coll : coll[id] # NoDoc /\ coll[id].email = email]
    ELSE NoDoc

\* MUTANT: the signup does not look for a pending request of the email
RegisterExistingNever(email) == FALSE

\* existing = await db.pending_registrations.find_one({"email": email})
RegisterExisting(email) == FindByEmail(pending_registrations, email) # NoDoc

\* the arguments of a registration handler and what it has read so far
RegCall(handler, session, id, email, password) ==
    [handler |-> handler, session |-> session, id |-> id, email |-> email,
     password |-> password, found |-> NoDoc, mail |-> "none", warned |-> FALSE]

\* register_submit up to its find_one
register_submit_find(t, email, password, password_confirm) ==
    LET call == RegCall("register_submit", "", 0, email, password)
        existing == [call EXCEPT !.found = FindByEmail(pending_registrations, email)] IN
    /\ Free(t)
    /\ Step(t, IF password # password_confirm THEN Finish(call, "200", "mismatch")
               ELSE IF RegisterExisting(email) THEN Finish(existing, "200", "duplicate")
               ELSE [pc |-> "insert"] @@ existing)
    /\ UNCHANGED <<users, photos, blog_entries, activities, nextId, now, phase, req, resp,
                   raw, out, pending_registrations, rejected, cookie>>

\* MUTANT: db.pending_registrations has no unique index on email
PendingDuplicateKeyNever(email) == FALSE

\* ensure_indexes: db.pending_registrations has a unique index on email, so
\* insert_one raises DuplicateKeyError when a stored request holds the email
PendingDuplicateKey(email) == FindByEmail(pending_registrations, email) # NoDoc

\* the answer of a handler whose last statement before the redirect is a
\* send_email: an exception of send_email is answered as a server error
AfterSend(mail) == IF mail = "raised" THEN "500" ELSE "303"

\* register_submit from its insert_one on: the unique index on email makes the
\* insert raise DuplicateKeyError when the email is pending by now; after the
\* insert comes send_email, whose outcome is mail
register_submit_insert(t, mail) ==
    /\ tasks[t].pc = "insert"
    /\ tasks[t].handler = "register_submit"
    /\ nextId <= MaxReqs
    /\ IF PendingDuplicateKey(tasks[t].email)
       THEN /\ Step(t, Finish(tasks[t], "500", "none"))
            /\ UNCHANGED <<pending_registrations, nextId>>
       ELSE /\ pending_registrations' =
                  InsertOne(pending_registrations, nextId,
                            [kind |-> "doc", email |-> tasks[t].email,
                             password_hash |-> Hash(tasks[t].password),
                             requested_at |-> now])
            /\ nextId' = nextId + 1
            /\ Step(t, Finish([tasks[t] EXCEPT !.mail = mail], AfterSend(mail), "none"))
    /\ UNCHANGED <<users, photos, blog_entries, activities, now, phase, req, resp,
                   raw, out, rejected, cookie>>

\* MUTANT: approving a request that is gone is an error
ApproveStatusStrict(pending) == IF pending = NoDoc THEN "404" ELSE "303"

\* admin_approve redirects whether it found the request or not
ApproveStatus(pending) == "303"

\* the user admin_approve inserts: with the stored hash, or by create_user with
\* the temporary password when the request holds no hash
ApprovedUser(pending) ==
    [kind |-> "doc", email |-> pending.email, is_admin |-> "false",
     password_hash |-> IF pending.password_hash # "none" THEN pending.password_hash
                       ELSE Hash("temporal"),
     permissions |-> [kind |-> "map", map |-> _default_permissions([kind |-> "none"])]]

\* what the guards in front of an admin route answer, "ok" when it lets through
AdminGate(session) ==
    IF session = "" THEN "construction"
    ELSE IF ~require_admin(get_current_user(session)) THEN "403"
    ELSE "ok"

\* admin_approve up to its find_one
admin_approve_find(t, session, request_id) ==
    LET call == RegCall("admin_approve", session, request_id, "none", "none")
        pending == FindOne(pending_registrations, request_id) IN
    /\ Free(t)
    /\ Step(t, IF AdminGate(session) # "ok" THEN Finish(call, AdminGate(session), "none")
               ELSE IF pending = NoDoc THEN Finish(call, ApproveStatus(pending), "none")
               ELSE [pc |-> "insert"] @@ [call EXCEPT !.found = pending])
    /\ UNCHANGED <<users, photos, blog_entries, activities, nextId, now, phase, req, resp,
                   raw, out, pending_registrations, rejected, cookie>>

\* MUTANT: db.users has no unique index on email
UsersDuplicateKeyNever(email) == FALSE

\* ensure_indexes: db.users has a unique index on email, so insert_one raises
\* DuplicateKeyError when a stored user holds the email
UsersDuplicateKey(email) == users[email] # NoDoc

\* admin_approve logs a warning when the request holds no password hash
ApproveWarns(pending) == pending.password_hash = "none"

\* admin_approve: db.users.insert_one (in create_user when the request holds no
\* hash), which the unique index on email makes raise DuplicateKeyError when
\* the email has a user
admin_approve_insert(t) ==
    LET pending == tasks[t].found
        call == [tasks[t] EXCEPT !.warned = ApproveWarns(pending)] IN
    /\ tasks[t].pc = "insert"
    /\ tasks[t].handler = "admin_approve"
    /\ IF UsersDuplicateKey(pending.email)
       THEN /\ Step(t, Finish(call, "500", "none"))
            /\ UNCHANGED users
       ELSE /\ users' = [users EXCEPT ![pending.email] = ApprovedUser(pending)]
            /\ Step(t, [call EXCEPT !.pc = "delete"])
    /\ UNCHANGED <<photos, blog_entries, activities, nextId, now, phase, req, resp,
                   raw, out, pending_registrations, rejected, cookie>>

\* admin_approve after the insert: send_email, whose outcome is mail, then
\* db.pending_registrations.delete_one and the redirect
admin_approve_delete(t, mail) ==
    LET call == [tasks[t] EXCEPT !.mail = mail] IN
    /\ tasks[t].pc = "delete"
    /\ tasks[t].handler = "admin_approve"
    /\ IF mail = "raised"
       THEN /\ Step(t, Finish(call, AfterSend(mail), "none"))
            /\ UNCHANGED pending_registrations
       ELSE /\ pending_registrations' = DeleteOne(pending_registrations, tasks[t].id)
            /\ Step(t, Finish(call, ApproveStatus(tasks[t].found), "none"))
    /\ UNCHANGED <<users, photos, blog_entries, activities, nextId, now, phase, req, resp,
                   raw, out, rejected, cookie>>

\* admin_delete: the reject
admin_delete(t, session, request_id) ==
    LET call == RegCall("admin_delete", session, request_id, "none", "none") IN
    /\ Free(t)
    /\ IF AdminGate(session) # "ok"
       THEN /\ Step(t, Finish(call, AdminGate(session), "none"))
            /\ UNCHANGED <<pending_registrations, rejected, cookie>>
       ELSE /\ pending_registrations' = DeleteOne(pending_registrations, request_id)
            /\ rejected' = IF FindOne(pending_registrations, request_id) # NoDoc
                           THEN rejected \union {request_id} ELSE rejected
            /\ UNCHANGED cookie
            /\ Step(t, Finish(call, "303", "none"))
    /\ UNCHANGED <<users, photos, blog_entries, activities, nextId, now, phase, req, resp,
                   raw, out>>

\* a member as create_user stored it, with the hash of a password of its own
Member(email) == [password_hash |-> "h0"] @@ NewUser(email)

\* a request stored before register_submit hashed the password: it holds no hash
LegacyRequest(email) ==
    [kind |-> "doc", email |-> email, password_hash |-> "none", requested_at |-> 0]

\* no request is pending, or one request without hash is, from an applicant
InitReg ==
    /\ users = [e \in Emails |-> IF e \in Members THEN Member(e) ELSE NoDoc]
    /\ photos = [id \in Ids |-> NoDoc]
    /\ blog_entries = [id \in Ids |-> NoDoc]
    /\ activities = [id \in Ids |-> NoDoc]
    /\ \/ /\ nextId = 1
          /\ pending_registrations = [id \in RequestIds |-> NoDoc]
       \/ \E email \in Applicants :
             /\ nextId = 2
             /\ pending_registrations =
                   [id \in RequestIds |-> IF id = 1 THEN LegacyRequest(email) ELSE NoDoc]
    /\ now = 0
    /\ phase = "idle"
    /\ req = NoRequest
    /\ resp = NoResponse
    /\ raw = NoRaw
    /\ out = NoOut
    /\ tasks = [t \in Tasks |-> IdleTask]
    /\ rejected = {}
    /\ cookie = NoCookie

NextReg ==
    \/ \E t \in Tasks, email \in Members \union Applicants,
          password \in Passwords, password_confirm \in Passwords :
          register_submit_find(t, email, password, password_confirm)
    \/ \E t \in Tasks, mail \in SendOutcomes : register_submit_insert(t, mail)
    \/ \E t \in Tasks, session \in Sessions, request_id \in RequestIds :
          admin_approve_find(t, session, request_id)
    \/ \E t \in Tasks : admin_approve_insert(t)
    \/ \E t \in Tasks, mail \in SendOutcomes : admin_approve_delete(t, mail)
    \/ \E t \in Tasks, session \in Sessions, request_id \in RequestIds :
          admin_delete(t, session, request_id)
    \/ Tick

SpecReg == InitReg /\ [][NextReg]_vars

-----------------------------------------------------------------------------
(* The handlers that write an existing content record, await by await: an    *)
(* edit-save and an owner's delete read the record and write it in a later   *)
(* step; publish, toggle and the console's delete make one database call.    *)

\* the arguments of a content handler and the $set document it has prepared
ContentCall(handler, session, scope, id, updates) ==
    [handler |-> handler, session |-> session, scope |-> scope, id |-> id,
     updates |-> updates]

EditSubmitOf(scope) ==
    CASE scope = "photos" -> "astrofotos_edit_submit"
      [] scope = "blog" -> "blog_edit_submit"
      [] scope = "activities" -> "activities_edit_submit"

DeleteOf(scope) == IF scope = "blog" THEN "blog_delete" ELSE "activities_delete"

PublishOf(scope) == IF scope = "blog" THEN "blog_publish" ELSE "activities_publish"

\* an edit-save up to its find_one and its permission checks
edit_submit_find(t, session, scope, id, title, is_hidden, published_at) ==
    LET user == get_current_user(session)
        gate == EditGate(get_current_user(session), scope, id)
        call == ContentCall(EditSubmitOf(scope), session, scope, id, <<>>) IN
    /\ Free(t)
    /\ Step(t, IF gate # "ok" THEN Finish(call, gate, "none")
               ELSE [pc |-> "update"] @@
                    [call EXCEPT !.updates =
                        IF scope = "photos" THEN PhotoEditUpdates(user, title, is_hidden)
                        ELSE PublicationEditUpdates(user, scope, title, is_hidden,
                                                    published_at)])
    /\ UNCHANGED <<users, photos, blog_entries, activities, nextId, now, phase, req, resp,
                   raw, out, pending_registrations, rejected, cookie>>

\* an edit-save: its update_one and the redirect
edit_submit_update_one(t) ==
    /\ tasks[t].pc = "update"
    /\ SetColl(tasks[t].scope,
               UpdateOne(Coll(tasks[t].scope), tasks[t].id, tasks[t].updates))
    /\ Step(t, Finish(tasks[t], "303", "none"))
    /\ UNCHANGED <<users, nextId, now, phase, req, resp, raw, out,
                   pending_registrations, rejected, cookie>>

\* blog_delete, activities_delete up to the find_one and the permission checks
delete_find(t, session, scope, id) ==
    LET gate == EditGate(get_current_user(session), scope, id)
        call == ContentCall(DeleteOf(scope), session, scope, id, <<>>) IN
    /\ Free(t)
    /\ Step(t, IF gate # "ok" THEN Finish(call, gate, "none")
               ELSE [pc |-> "delete_one"] @@ call)
    /\ UNCHANGED <<users, photos, blog_entries, activities, nextId, now, phase, req, resp,
                   raw, out, pending_registrations, rejected, cookie>>

\* blog_delete, activities_delete: the delete_one and the redirect
delete_delete_one(t) ==
    /\ tasks[t].pc = "delete_one"
    /\ SetColl(tasks[t].scope, DeleteOne(Coll(tasks[t].scope), tasks[t].id))
    /\ Step(t, Finish(tasks[t], "303", "none"))
    /\ UNCHANGED <<users, nextId, now, phase, req, resp, raw, out,
                   pending_registrations, rejected, cookie>>

\* blog_publish, activities_publish
publish_update_one(t, session, scope, id) ==
    LET call == ContentCall(PublishOf(scope), session, scope, id, [is_hidden |-> FALSE]) IN
    /\ Free(t)
    /\ IF ~PublishAllowed(get_current_user(session), scope)
       THEN /\ Step(t, Finish(call, "403", "none"))
            /\ UNCHANGED <<photos, blog_entries, activities>>
       ELSE /\ SetColl(scope, UpdateOne(Coll(scope), id, call.updates))
            /\ Step(t, Finish(call, "303", "none"))
    /\ UNCHANGED <<users, nextId, now, phase, req, resp, raw, out,
                   pending_registrations, rejected, cookie>>

\* content_toggle_visibility
toggle_update_one(t, session, scope, id, visibility) ==
    LET call == ContentCall("content_toggle_visibility", session, scope, id,
                            ToggleUpdates(scope, visibility)) IN
    /\ Free(t)
    /\ IF ~_can_manage_scope(get_current_user(session), scope)
       THEN /\ Step(t, Finish(call, "403", "none"))
            /\ UNCHANGED <<photos, blog_entries, activities>>
       ELSE /\ SetColl(scope, UpdateOne(Coll(scope), id, call.updates))
            /\ Step(t, Finish(call, "303", "none"))
    /\ UNCHANGED <<users, nextId, now, phase, req, resp, raw, out,
                   pending_registrations, rejected, cookie>>

\* content_delete
content_delete_one(t, session, scope, id) ==
    LET call == ContentCall("content_delete", session, scope, id, <<>>) IN
    /\ Free(t)
    /\ IF ~_can_manage_scope(get_current_user(session), scope)
       THEN /\ Step(t, Finish(call, "403", "none"))
            /\ UNCHANGED <<photos, blog_entries, activities>>
       ELSE /\ SetColl(scope, DeleteOne(Coll(scope), id))
            /\ Step(t, Finish(call, "303", "none"))
    /\ UNCHANGED <<users, nextId, now, phase, req, resp, raw, out,
                   pending_registrations, rejected, cookie>>

\* a record as the create handlers store it
StoredRecord(scope, author_email, is_hidden) ==
    IF scope = "photos"
    THEN [kind |-> "doc", name |-> "t1", uploaded_at |-> 0,
          uploaded_by |-> author_email, is_hidden |-> is_hidden]
    ELSE [kind |-> "doc", title |-> "t1", published_at |-> 0,
          author_email |-> author_email, is_hidden |-> is_hidden]

\* a member whose flags the admin has set from a form
MemberWith(email, form) ==
    [NewUser(email) EXCEPT !.permissions =
        [kind |-> "map", map |-> [key \in PERMISSION_KEYS |-> PyBool(key \in form)]]]

\* the records of one scope: every id has been handed out, all in that scope
StoredIn(scope, focus) ==
    IF scope = focus
    THEN [Ids -> {StoredRecord(scope, "ana@cd", h) : h \in BOOLEAN}]
    ELSE {[id \in Ids |-> NoDoc]}

\* the member holds the base flags or the supervised flags of the scopes and
\* has created the records of one scope
InitRace ==
    /\ \E form \in {Scopes, PERMISSION_KEYS \ Scopes} :
          users = [e \in Emails |-> IF e \in Members THEN MemberWith(e, form) ELSE NoDoc]
    /\ \E focus \in Scopes :
          /\ photos \in StoredIn("photos", focus)
          /\ blog_entries \in StoredIn("blog", focus)
          /\ activities \in StoredIn("activities", focus)
    /\ nextId = MaxIds + 1
    /\ now = MaxTime
    /\ phase = "idle"
    /\ req = NoRequest
    /\ resp = NoResponse
    /\ raw = NoRaw
    /\ out = NoOut
    /\ pending_registrations = [id \in RequestIds |-> NoDoc]
    /\ tasks = [t \in Tasks |-> IdleTask]
    /\ rejected = {}
    /\ cookie = NoCookie

\* the requests carry a session (the construction guard has let them through);
\* an edit-save sends a new title and no date
NextRace ==
    \/ \E t \in Tasks, session \in Sessions \ {""}, scope \in Scopes, id \in Ids,
          is_hidden \in Checkbox :
          edit_submit_find(t, session, scope, id, "t2", is_hidden, "none")
    \/ \E t \in Tasks : edit_submit_update_one(t)
    \/ \E t \in Tasks, session \in Sessions \ {""}, scope \in {"blog", "activities"},
          id \in Ids :
          delete_find(t, session, scope, id)
    \/ \E t \in Tasks : delete_delete_one(t)
    \/ \E t \in Tasks, session \in Sessions \ {""}, scope \in {"blog", "activities"},
          id \in Ids :
          publish_update_one(t, session, scope, id)
    \/ \E t \in Tasks, session \in Sessions \ {""}, scope \in Scopes, id \in Ids,
          visibility \in Visibility :
          toggle_update_one(t, session, scope, id, visibility)
    \/ \E t \in Tasks, session \in Sessions \ {""}, scope \in Scopes, id \in Ids :
          content_delete_one(t, session, scope, id)

SpecRace == InitRace /\ [][NextRace]_vars

-----------------------------------------------------------------------------
(* The same handlers on a store that holds several records, in one scope or  *)
(* in different ones, written by handlers running at the same time.          *)

MaxRecords == 2     \* content records in store

RecordIds == 1..MaxRecords

\* the scopes of the records in store: all in one scope, or the first in
\* another scope than the others
PairLayouts ==
    {[id \in RecordIds |-> "blog"],
     [id \in RecordIds |-> IF id = 1 THEN "blog" ELSE "activities"],
     [id \in RecordIds |-> IF id = 1 THEN "photos" ELSE "blog"]}

\* the member holds the supervised flags and has created every record, as a
\* draft; layout names the scope of each
InitPair ==
    /\ users = [e \in Emails |->
                  IF e \in Members THEN MemberWith(e, PERMISSION_KEYS \ Scopes) ELSE NoDoc]
    /\ \E layout \in PairLayouts :
          /\ photos = [id \in RecordIds |->
                IF layout[id] = "photos" THEN StoredRecord("photos", "ana@cd", TRUE)
                ELSE NoDoc]
          /\ blog_entries = [id \in RecordIds |->
                IF layout[id] = "blog" THEN StoredRecord("blog", "ana@cd", TRUE)
                ELSE NoDoc]
          /\ activities = [id \in RecordIds |->
                IF layout[id] = "activities" THEN StoredRecord("activities", "ana@cd", TRUE)
                ELSE NoDoc]
    /\ nextId = MaxRecords + 1
    /\ now = MaxTime
    /\ phase = "idle"
    /\ req = NoRequest
    /\ resp = NoResponse
    /\ raw = NoRaw
    /\ out = NoOut
    /\ pending_registrations = [id \in RequestIds |-> NoDoc]
    /\ tasks = [t \in Tasks |-> IdleTask]
    /\ rejected = {}
    /\ cookie = NoCookie

\* the author edits and deletes; the administrator publishes, toggles and
\* deletes from the console.  An edit-save sends a new title, asks for a
\* published record and sends no date.
NextPair ==
    \/ \E t \in Tasks, session \in Members, scope \in Scopes, id \in RecordIds :
          edit_submit_find(t, session, scope, id, "t2", "none", "none")
    \/ \E t \in Tasks : edit_submit_update_one(t)
    \/ \E t \in Tasks, session \in Members, scope \in {"blog", "activities"},
          id \in RecordIds :
          delete_find(t, session, scope, id)
    \/ \E t \in Tasks : delete_delete_one(t)
    \/ \E t \in Tasks, scope \in {"blog", "activities"}, id \in RecordIds :
          publish_update_one(t, ADMIN_EMAIL, scope, id)
    \/ \E t \in Tasks, scope \in Scopes, id \in RecordIds, visibility \in Visibility :
          toggle_update_one(t, ADMIN_EMAIL, scope, id, visibility)
    \/ \E t \in Tasks, scope \in Scopes, id \in RecordIds :
          content_delete_one(t, ADMIN_EMAIL, scope, id)

SpecPair == InitPair /\ [][NextPair]_vars

-----------------------------------------------------------------------------
(* The four routes behind require_admin, on a store where a member holds any *)
(* flags and an applicant's request is pending.                              *)

AdminHandlers ==
    {"admin_approve", "admin_delete", "admin_update_permissions", "admin_user_delete"}

\* the $set document of admin_update_permissions for the boxes ticked in form
PermissionUpdates(form) ==
    [permissions |-> [kind |-> "map",
                      map |-> [key \in PERMISSION_KEYS |-> PyBool(key \in form)]]]

\* admin_update_permissions: user_id names the document of target
update_permissions_update_one(t, session, target, form) ==
    LET call == RegCall("admin_update_permissions", session, 0, target, "none") IN
    /\ Free(t)
    /\ IF AdminGate(session) # "ok"
       THEN /\ Step(t, Finish(call, AdminGate(session), "none"))
            /\ UNCHANGED users
       ELSE /\ users' = UpdateOne(users, target, PermissionUpdates(form))
            /\ Step(t, Finish(call, "303", "none"))
    /\ UNCHANGED <<photos, blog_entries, activities, nextId, now, phase, req, resp,
                   raw, out, pending_registrations, rejected, cookie>>

\* admin_user_delete: user_id names the document of target
user_delete_delete_one(t, session, target) ==
    LET call == RegCall("admin_user_delete", session, 0, target, "none") IN
    /\ Free(t)
    /\ IF AdminGate(session) # "ok"
       THEN /\ Step(t, Finish(call, AdminGate(session), "none"))
            /\ UNCHANGED users
       ELSE /\ users' = DeleteOne(users, target)
            /\ Step(t, Finish(call, "303", "none"))
    /\ UNCHANGED <<photos, blog_entries, activities, nextId, now, phase, req, resp,
                   raw, out, pending_registrations, rejected, cookie>>

\* a request as register_submit stores it
StoredRequest(email, password) ==
    [kind |-> "doc", email |-> email, password_hash |-> Hash(password), requested_at |-> 0]

\* the member holds any combination of the six flags; the request of an
\* applicant is pending, with the hash of its password or without hash
InitAdmin ==
    /\ \E form \in SUBSET PERMISSION_KEYS :
          users = [e \in Emails |->
                     IF e \in Members
                     THEN [password_hash |-> "h0"] @@ MemberWith(e, form)
                     ELSE NoDoc]
    /\ \E email \in Applicants :
          \E request \in {StoredRequest(email, "p1"), LegacyRequest(email)} :
             pending_registrations = [id \in RequestIds |-> IF id = 1 THEN request ELSE NoDoc]
    /\ photos = [id \in Ids |-> NoDoc]
    /\ blog_entries = [id \in Ids |-> NoDoc]
    /\ activities = [id \in Ids |-> NoDoc]
    /\ nextId = 2
    /\ now = 0
    /\ phase = "idle"
    /\ req = NoRequest
    /\ resp = NoResponse
    /\ raw = NoRaw
    /\ out = NoOut
    /\ tasks = [t \in Tasks |-> IdleTask]
    /\ rejected = {}
    /\ cookie = NoCookie

\* the admin ticks no box or every box
NextAdmin ==
    \/ \E t \in Tasks, session \in Sessions, request_id \in RequestIds :
          admin_approve_find(t, session, request_id)
    \/ \E t \in Tasks : admin_approve_insert(t)
    \/ \E t \in Tasks, mail \in SendOutcomes : admin_approve_delete(t, mail)
    \/ \E t \in Tasks, session \in Sessions, request_id \in RequestIds :
          admin_delete(t, session, request_id)
    \/ \E t \in Tasks, session \in Sessions, target \in Members,
          form \in {{}, PERMISSION_KEYS} :
          update_permissions_update_one(t, session, target, form)
    \/ \E t \in Tasks, session \in Sessions, target \in Members :
          user_delete_delete_one(t, session, target)

SpecAdmin == InitAdmin /\ [][NextAdmin]_vars

-----------------------------------------------------------------------------
(* The site as the administrator uses it: every request of the configured    *)
(* administrator, and the profile pages of the members.  Saving the profile  *)
(* gives the administrator a stored document.                                *)

AdminRequests ==
    {r \in Requests : r.session = ADMIN_EMAIL}
    \union {Ident("profile", session) : session \in Members}
    \union {Ident("profile_update", session) : session \in {ADMIN_EMAIL} \union Members}

NextOverride ==
    \/ \E r \in AdminRequests : Receive(r)
    \/ blog_new
    \/ activities_new
    \/ astrofotos_upload
    \/ blog_new_submit
    \/ activities_new_submit
    \/ astrofotos_edit
    \/ blog_edit
    \/ activities_edit
    \/ astrofotos_edit_submit
    \/ blog_edit_submit
    \/ activities_edit_submit
    \/ blog_publish
    \/ activities_publish
    \/ blog_delete
    \/ activities_delete
    \/ content_toggle_visibility
    \/ content_delete
    \/ astrofoto_detail
    \/ blog_detail
    \/ activities_detail
    \/ index
    \/ astrofotos
    \/ blog
    \/ activities_page
    \/ profile
    \/ profile_update
    \/ content_management
    \/ admin_update_permissions
    \/ admin_user_delete
    \/ Done
    \/ Tick

SpecOverride == Init /\ [][NextOverride]_vars

-----------------------------------------------------------------------------
(* Login: one browser logs in and out, signs up, and calls the admin routes  *)
(* under whatever session it holds.                                          *)

\* settings.admin_password
ADMIN_PASSWORD == "adminpw"

\* bcrypt.verify(password, password_hash)
Verify(password, password_hash) ==
    password \in Passwords \union {"temporal"} /\ Hash(password) = password_hash

\* which branch of authenticate_user returns a user: "admin" the configured
\* credentials, "stored" a document of db.users whose hash verifies, else "none"
AuthenticatedVia(email, password) ==
    IF /\ ADMIN_EMAIL # "" /\ ADMIN_PASSWORD # ""
       /\ email = ADMIN_EMAIL /\ password = ADMIN_PASSWORD
    THEN "admin"
    ELSE IF users[email] = NoDoc THEN "none"
    ELSE IF ~Verify(password, Get(users[email], "password_hash")) THEN "none"
    ELSE "stored"

authenticate_user(email, password) ==
    CASE AuthenticatedVia(email, password) = "admin" ->
            [kind |-> "doc", email |-> email, is_admin |-> "true"]
      [] AuthenticatedVia(email, password) = "stored" -> users[email]
      [] OTHER -> NoDoc

\* login_submit: the session is set when authenticate_user returns a user, and
\* left as it is otherwise
login_submit(email, password) ==
    LET user == authenticate_user(email, password) IN
    /\ cookie' = IF user = NoDoc THEN cookie
                 ELSE [user_email |-> user.email, is_admin |-> Truthy(user.is_admin),
                       via |-> AuthenticatedVia(email, password)]
    /\ tasks' = Retired
    /\ UNCHANGED <<users, photos, blog_entries, activities, nextId, now, phase, req, resp,
                   raw, out, pending_registrations, rejected>>

\* logout: request.session.clear()
logout ==
    /\ cookie' = NoCookie
    /\ tasks' = Retired
    /\ UNCHANGED <<users, photos, blog_entries, activities, nextId, now, phase, req, resp,
                   raw, out, pending_registrations, rejected>>

\* the members are stored, nothing is pending, nobody is logged in
InitLogin == InitReg /\ nextId = 1

\* anybody signs up, with any email; the admin routes are called under the
\* session of the browser
NextLogin ==
    \/ \E email \in Emails, password \in Passwords \union {ADMIN_PASSWORD} :
          login_submit(email, password)
    \/ logout
    \/ \E t \in Tasks, email \in {ADMIN_EMAIL} \union Applicants, password \in Passwords :
          register_submit_find(t, email, password, password)
    \/ \E t \in Tasks, mail \in SendOutcomes : register_submit_insert(t, mail)
    \/ \E t \in Tasks, request_id \in RequestIds :
          admin_approve_find(t, cookie.user_email, request_id)
    \/ \E t \in Tasks : admin_approve_insert(t)
    \/ \E t \in Tasks, mail \in SendOutcomes : admin_approve_delete(t, mail)
    \/ \E t \in Tasks, request_id \in RequestIds :
          admin_delete(t, cookie.user_email, request_id)

SpecLogin == InitLogin /\ [][NextLogin]_vars

-----------------------------------------------------------------------------
(* Profile updates beside the administration of users: profile_update        *)
(* resolves its user (get_current_user awaits find_one) and writes in a      *)
(* later step.                                                               *)

\* profile_update up to the user its dependency get_current_user resolves
profile_update_find(t, session) ==
    LET call == RegCall("profile_update", session, 0, session, "none")
        user == get_current_user(session) IN
    /\ Free(t)
    /\ Step(t, IF session = "" THEN Finish(call, "construction", "none")
               ELSE IF user.kind = "none" THEN Finish(call, "403", "none")
               ELSE [pc |-> "update"] @@ [call EXCEPT !.found = user])
    /\ UNCHANGED <<users, photos, blog_entries, activities, nextId, now, phase, req, resp,
                   raw, out, pending_registrations, rejected, cookie>>

\* profile_update: its update_one with upsert=True and the redirect
profile_update_update_one(t) ==
    /\ tasks[t].pc = "update"
    /\ tasks[t].handler = "profile_update"
    /\ users' = ProfileUpsert(users, tasks[t].found)
    /\ Step(t, Finish(tasks[t], "303", "none"))
    /\ UNCHANGED <<photos, blog_entries, activities, nextId, now, phase, req, resp,
                   raw, out, pending_registrations, rejected, cookie>>

\* the members update their profiles and sign up again, the administrator
\* deletes members and approves requests
NextProfile ==
    \/ \E t \in Tasks, session \in Sessions : profile_update_find(t, session)
    \/ \E t \in Tasks : profile_update_update_one(t)
    \/ \E t \in Tasks, session \in Sessions, target \in Members :
          user_delete_delete_one(t, session, target)
    \/ \E t \in Tasks, email \in Members, password \in Passwords :
          register_submit_find(t, email, password, password)
    \/ \E t \in Tasks, mail \in SendOutcomes : register_submit_insert(t, mail)
    \/ \E t \in Tasks, request_id \in RequestIds :
          admin_approve_find(t, ADMIN_EMAIL, request_id)
    \/ \E t \in Tasks : admin_approve_insert(t)
    \/ \E t \in Tasks, mail \in SendOutcomes : admin_approve_delete(t, mail)

SpecProfile == InitLogin /\ [][NextProfile]_vars

-----------------------------------------------------------------------------
(* The vocabulary of the claims, read off the stored documents alone *)

\* the session resolves to a principal: the administrator or a stored member
IsPrincipal(session) ==
    session # "" /\ (session = ADMIN_EMAIL \/ users[session] # NoDoc)

IsAdmin(session) ==
    IsPrincipal(session)
    /\ (session = ADMIN_EMAIL \/ users[session].is_admin = "true")

\* the stored flag of a member is the boolean true
Flag(session, key) ==
    /\ IsPrincipal(session)
    /\ users[session] # NoDoc
    /\ users[session].permissions.kind = "map"
    /\ Get(users[session].permissions.map, key) = "true"

\* admin, or holder of the base permission of the scope
Manages(session, scope) == IsAdmin(session) \/ Flag(session, scope)

\* admin, or holder of the base or of the supervised permission of the scope
HoldsAny(session, scope) ==
    Manages(session, scope) \/ Flag(session, SUPERVISED_PERMISSION_MAP[scope])

\* canEdit of the specification
MayEdit(session, scope, author_email) ==
    \/ Manages(session, scope)
    \/ (IsPrincipal(session) /\ author_email = session /\ HoldsAny(session, scope))

CreateHandlers == {"astrofotos_upload", "blog_new_submit", "activities_new_submit"}
CreateFormHandlers == {"blog_new", "activities_new"}
EditHandlers == {"astrofotos_edit_submit", "blog_edit_submit", "activities_edit_submit"}
EditFormHandlers == {"astrofotos_edit", "blog_edit", "activities_edit"}
PublishHandlers == {"blog_publish", "activities_publish"}
OwnerDeleteHandlers == {"blog_delete", "activities_delete"}
DetailHandlers == {"astrofoto_detail", "blog_detail", "activities_detail"}
ListHandlers ==
    {"index", "astrofotos", "blog", "activities", "profile", "content_management"}

\* the handlers that write a content collection
ContentWriters ==
    CreateHandlers \union EditHandlers \union PublishHandlers \union OwnerDeleteHandlers
        \union {"content_toggle_visibility", "content_delete"}

\* a request of one of the handlers hs has been served
Served(hs) == phase = "served" /\ req.handler \in hs

\* the collection of a scope before the handler ran
Before(scope) ==
    CASE scope = "photos" -> resp.before.photos
      [] scope = "blog" -> resp.before.blog_entries
      [] scope = "activities" -> resp.before.activities

\* the document the served request names, before and after the handler
Target == FindOne(Coll(req.scope), req.id)
TargetBefore == FindOne(Before(req.scope), req.id)

\* the scope of the collection that holds id (ids are never shared)
Holds(scope, id) == FindOne(Coll(scope), id) # NoDoc

-----------------------------------------------------------------------------
(* C1: in every scope, whenever a request leaves a record Published that was *)
(* absent or hidden before it, the request was made by an admin or by a      *)
(* holder of the scope's base permission: nobody else creates a record as    *)
(* Published or turns is_hidden from true to false.                          *)

C1_OnlyManagersPublish ==
    Served(ContentWriters) =>
        \A scope \in Scopes, id \in Ids :
            LET b == FindOne(Before(scope), id)
                a == FindOne(Coll(scope), id)
            IN (a # NoDoc /\ ~a.is_hidden /\ (b = NoDoc \/ b.is_hidden))
                   => Manages(req.session, scope)

\* a supervised-only member asked to publish a new record and got a draft
C1_Witness ==
    /\ Served(CreateHandlers)
    /\ req.arg = "publish"
    /\ resp.status = "303"
    /\ ~Manages(req.session, req.scope)
    /\ Flag(req.session, SUPERVISED_PERMISSION_MAP[req.scope])
    /\ FindOne(Coll(req.scope), resp.created).is_hidden

-----------------------------------------------------------------------------
(* C2: a hidden record is shown, by a detail page or by a listing, only to a *)
(* principal who is admin, holds the base permission of the record's scope   *)
(* or is the record's author.                                                *)

C2_HiddenOnlyForManagerOrAuthor ==
    (Served(DetailHandlers \union ListHandlers) /\ resp.status = "200") =>
        \A scope \in Scopes, id \in resp.seen :
            (Holds(scope, id) /\ Coll(scope)[id].is_hidden)
                => \/ Manages(req.session, scope)
                   \/ AuthorOf(scope, Coll(scope)[id]) = req.session

-----------------------------------------------------------------------------
(* C3: a create by a principal with any permission of the scope stores a new *)
(* record, which is Published exactly when the intent is not "review" and    *)
(* the principal is admin or holds the base permission, and a Draft otherwise*)

-----------------------------------------------------------------------------
(* C4: in every scope, after an edit-save accepted from an editor who does   *)
(* not hold the base permission, the stored record is a Draft, whatever was  *)
(* requested and whatever the record's state before.                         *)

C4_NonManagerEditLeavesDraft ==
    (Served(EditHandlers) /\ resp.status = "303" /\ ~Manages(req.session, req.scope)) =>
        (Target # NoDoc /\ Target.is_hidden)

-----------------------------------------------------------------------------
(* C5: the edit form and the edit-save of an existing record are permitted   *)
(* exactly when the principal is admin, holds the base permission, or is the *)
(* author and holds the base or the supervised permission; anybody else gets *)
(* 403.                                                                      *)

-----------------------------------------------------------------------------
(* C6: the publish action is allowed exactly when the principal is admin or  *)
(* holds the base permission of the scope; when allowed, the record is       *)
(* Published afterwards whatever its state before.                           *)

C6_Publish ==
    (Served(PublishHandlers) /\ req.session # "") =>
        /\ (resp.status = "303") = Manages(req.session, req.scope)
        /\ resp.status # "303" => resp.status = "403" /\ Target = TargetBefore
        /\ (resp.status = "303" /\ TargetBefore # NoDoc) =>
              (Target # NoDoc /\ ~Target.is_hidden)

\* a member holding the base permission published a draft
C6_Witness ==
    /\ Served(PublishHandlers)
    /\ ~IsAdmin(req.session)
    /\ resp.status = "303"
    /\ TargetBefore # NoDoc
    /\ TargetBefore.is_hidden
    /\ ~Target.is_hidden

-----------------------------------------------------------------------------
(* C7: the visibility toggle is allowed exactly when the principal is admin  *)
(* or holds the base permission of the scope (never for a request that       *)
(* resolves to no user, nor for a supervised-only author); when allowed, the *)
(* record is hidden afterwards iff the request said hide.                    *)

C7_Toggle ==
    Served({"content_toggle_visibility"}) =>
        /\ (resp.status = "303") = Manages(req.session, req.scope)
        /\ resp.status # "303" => Target = TargetBefore
        /\ (resp.status = "303" /\ TargetBefore # NoDoc) =>
              (Target # NoDoc /\ Target.is_hidden = (req.arg = "hide"))

\* a member holding the base permission showed a draft
C7_Witness ==
    /\ Served({"content_toggle_visibility"})
    /\ ~IsAdmin(req.session)
    /\ req.arg = "show"
    /\ resp.status = "303"
    /\ TargetBefore # NoDoc
    /\ TargetBefore.is_hidden
    /\ ~Target.is_hidden

-----------------------------------------------------------------------------
(* C8: in every scope, photos included, the delete action on a record is   *)
(* allowed when canEdit holds for the principal on that record (so a         *)
(* supervised-only author deletes their own item) or when the principal      *)
(* manages the scope, and denied to anybody else; when allowed the record is *)
(* removed.                                                                  *)

\* the most permissive delete action a scope has
DeleteRoute(scope) ==
    CASE scope = "photos" -> "content_delete"
      [] scope = "blog" -> "blog_delete"
      [] scope = "activities" -> "activities_delete"
      [] OTHER -> "none"

C8_DeleteGuard ==
    (/\ phase = "served"
     /\ req.handler = DeleteRoute(req.scope)
     /\ req.session # ""
     /\ TargetBefore # NoDoc) =>
        IF \/ MayEdit(req.session, req.scope, AuthorOf(req.scope, TargetBefore))
           \/ Manages(req.session, req.scope)
        THEN resp.status = "303" /\ Target = NoDoc
        ELSE resp.status = "403" /\ Target = TargetBefore

-----------------------------------------------------------------------------
(* C9: for every user record whose is_admin is true, whatever its stored     *)
(* permissions hold (missing, all false, partial, not even a dict),          *)
(* normalization yields all six flags true and every check of every scope    *)
(* (base, supervised, any, canManageScope, canEdit) succeeds.                *)

C9_AdminHasEverything ==
    (raw.kind = "doc" /\ raw.is_admin = "true" /\ out.fn # "none") =>
        /\ ~out.error
        /\ out.fn = "_normalize_user" =>
              /\ out.user.permissions.kind = "map"
              /\ out.user.permissions.map = [key \in PERMISSION_KEYS |-> "true"]
        /\ out.fn = "checks" =>
              out.has /\ out.supervised /\ out.any /\ out.manage /\ out.edit

\* an admin whose stored permissions are a partial dict was normalized
C9_Witness ==
    /\ raw.kind = "doc"
    /\ raw.is_admin = "true"
    /\ raw.permissions.kind = "map"
    /\ DOMAIN raw.permissions.map = {"blog"}
    /\ raw.permissions.map["blog"] = "false"
    /\ out.fn = "_normalize_user"
    /\ out.user.permissions.map["photos_supervised"] = "true"

-----------------------------------------------------------------------------
(* C10: for every non-admin user record whose permissions are a dict or are  *)
(* missing, normalization returns a mapping with exactly the six named keys, *)
(* in which a flag is true exactly when the stored value of the key is the   *)
(* boolean true: a missing key, a string or a number yields false.           *)

C10_OnlyBooleanTrue ==
    (/\ out.fn = "_normalize_user"
     /\ raw.is_admin \in {"false", "none"}
     /\ raw.permissions.kind \in {"none", "map"}) =>
        /\ ~out.error
        /\ DOMAIN out.user.permissions.map = PERMISSION_KEYS
        /\ \A key \in PERMISSION_KEYS :
              (out.user.permissions.map[key] = "true")
                  <=> (/\ raw.permissions.kind = "map"
                       /\ Get(raw.permissions.map, key) = "true")

-----------------------------------------------------------------------------
(* The registration claims read the answer of a task in the state in which   *)
(* it has just answered.                                                     *)

\* task t has just answered a request of one of the handlers hs
Answered(t, hs) == tasks[t].pc = "done" /\ tasks[t].handler \in hs

NoFlags == [key \in PERMISSION_KEYS |-> "false"]

-----------------------------------------------------------------------------
(* C11: when an admin's approve of an existing pending registration that     *)
(* carries a password hash has ended, a User exists with the request's email *)
(* and exactly that hash, is_admin false and the six flags false, and the    *)
(* pending registration no longer exists.                                    *)

C11_ApproveMaterializes ==
    \A t \in Tasks :
        (/\ Answered(t, {"admin_approve"})
         /\ tasks[t].found # NoDoc
         /\ tasks[t].found.password_hash # "none") =>
            LET user == users[tasks[t].found.email] IN
            /\ user # NoDoc
            /\ Get(user, "password_hash") = tasks[t].found.password_hash
            /\ user.is_admin = "false"
            /\ user.permissions = [kind |-> "map", map |-> NoFlags]
            /\ FindOne(pending_registrations, tasks[t].id) = NoDoc

-----------------------------------------------------------------------------
(* C12: once a reject has deleted a pending registration, no User is ever    *)
(* materialized from that request, even by an approve that read the record   *)
(* before the reject deleted it.                                             *)

C12_RejectedNeverMaterialized ==
    [][\A t \in Tasks :
          (/\ tasks[t].pc = "insert"
           /\ tasks[t].handler = "admin_approve"
           /\ tasks'[t].pc = "delete"
           /\ users'[tasks[t].found.email] # NoDoc)
              => tasks[t].id \notin rejected]_vars

-----------------------------------------------------------------------------
(* C13: a signup (its password confirmation matching) for an email that has  *)
(* a pending registration stores no second pending record, leaves the        *)
(* existing one as it was, hash and request time included, and answers with  *)
(* the duplicate notice.                                                     *)

C13_DuplicateSignup ==
    \A t \in Tasks :
        (Answered(t, {"register_submit"}) /\ tasks[t].found # NoDoc) =>
            /\ tasks[t].status = "200"
            /\ tasks[t].notice = "duplicate"
            /\ pending_registrations = tasks[t].before.pending_registrations
            /\ users = tasks[t].before.users
            /\ \E id \in RequestIds : pending_registrations[id] = tasks[t].found

\* a second signup for a pending email, with another password and later
C13_Witness ==
    \E t \in Tasks :
        /\ Answered(t, {"register_submit"})
        /\ tasks[t].found # NoDoc
        /\ tasks[t].notice = "duplicate"
        /\ tasks[t].found.email = tasks[t].email
        /\ tasks[t].found.password_hash # Hash(tasks[t].password)
        /\ tasks[t].found.requested_at # now

-----------------------------------------------------------------------------
(* C14: an approve or a reject by an admin of a request id whose pending     *)
(* record no longer exists (already approved or rejected) changes neither    *)
(* the users nor the pending registrations and redirects as usual.           *)

C14_ResolvedIsNoOp ==
    \A t \in Tasks :
        (/\ Answered(t, {"admin_approve", "admin_delete"})
         /\ AdminGate(tasks[t].session) = "ok"
         /\ tasks[t].id < nextId
         /\ tasks[t].found = NoDoc
         /\ FindOne(tasks[t].before.pending_registrations, tasks[t].id) = NoDoc) =>
            /\ tasks[t].status = "303"
            /\ users = tasks[t].before.users
            /\ pending_registrations = tasks[t].before.pending_registrations

\* an approve of a request that had been rejected
C14_Witness ==
    \E t \in Tasks :
        /\ Answered(t, {"admin_approve"})
        /\ tasks[t].session = ADMIN_EMAIL
        /\ tasks[t].id \in rejected
        /\ tasks[t].found = NoDoc
        /\ tasks[t].status = "303"

-----------------------------------------------------------------------------
(* C15: for a request that carries no user and every record of every scope,  *)
(* the record's page is served iff the record is Published: a published      *)
(* record is served to the anonymous visitor and a hidden one is not.        *)

C15_AnonymousViewsPublished ==
    (Served(DetailHandlers) /\ ~IsPrincipal(req.session) /\ Target # NoDoc) =>
        ((resp.status = "200" /\ req.id \in resp.seen) <=> ~Target.is_hidden)

-----------------------------------------------------------------------------
(* C16: in every scope the author of a hidden record is served its page,     *)
(* also when the author holds neither the base nor the supervised flag of    *)
(* the scope any more.                                                       *)

C16_AuthorViewsOwnHidden ==
    (/\ Served(DetailHandlers)
     /\ IsPrincipal(req.session)
     /\ Target # NoDoc
     /\ Target.is_hidden
     /\ AuthorOf(req.scope, Target) = req.session) =>
        (resp.status = "200" /\ req.id \in resp.seen)

\* the author of a hidden blog entry or activity, all flags revoked, views it
C16_Witness ==
    /\ Served({"blog_detail", "activities_detail"})
    /\ IsPrincipal(req.session)
    /\ ~HoldsAny(req.session, req.scope)
    /\ Target # NoDoc
    /\ Target.is_hidden
    /\ AuthorOf(req.scope, Target) = req.session
    /\ resp.status = "200"

-----------------------------------------------------------------------------
(* C17: a logged-in principal who neither manages the scope nor is the       *)
(* author and asks for the page of a hidden record is answered NotFound      *)
(* (404), as for an id that does not exist, never Forbidden.                 *)

C17_HiddenIsNotFound ==
    (/\ Served(DetailHandlers)
     /\ req.session # ""
     /\ Target # NoDoc
     /\ Target.is_hidden
     /\ ~Manages(req.session, req.scope)
     /\ AuthorOf(req.scope, Target) # req.session) =>
        resp.status = "404"

-----------------------------------------------------------------------------
(* C18: in every scope an edit-save by an admin or a holder of the scope's   *)
(* base permission is accepted and stores the requested is_hidden: the       *)
(* record is hidden afterwards iff the form asked for hidden, whatever it    *)
(* was before.                                                               *)

-----------------------------------------------------------------------------
(* C19: a visibility toggle that shows a blog entry or an activity sets its  *)
(* published_at to the current time; a toggle on a photo leaves uploaded_at  *)
(* as it was, and so does a toggle that hides, in any scope.                 *)

C19_ToggleStamp ==
    (/\ Served({"content_toggle_visibility"})
     /\ resp.status = "303"
     /\ TargetBefore # NoDoc) =>
        /\ Target # NoDoc
        /\ StampOf(req.scope, Target) =
              IF req.scope # "photos" /\ req.arg = "show" THEN now
              ELSE StampOf(req.scope, TargetBefore)

\* an entry stamped earlier is shown and carries the current time
C19_Witness ==
    /\ Served({"content_toggle_visibility"})
    /\ req.scope # "photos"
    /\ req.arg = "show"
    /\ resp.status = "303"
    /\ TargetBefore # NoDoc
    /\ StampOf(req.scope, TargetBefore) # now
    /\ StampOf(req.scope, Target) = now

-----------------------------------------------------------------------------
(* C20: deletion is terminal.  Ids are handed out once, so a record that is  *)
(* absent under an id already handed out has been deleted; no step of an     *)
(* edit-save, a publish or a toggle, running later or at the same time, also *)
(* one that read the record before the delete and writes after it, makes a   *)
(* record exist under that id again.                                         *)

\* the collection of a scope after the step
CollAfter(scope) ==
    CASE scope = "photos" -> photos'
      [] scope = "blog" -> blog_entries'
      [] scope = "activities" -> activities'

C20_DeletionIsTerminal ==
    [][\A scope \in Scopes, id \in Ids :
          (id < nextId /\ FindOne(Coll(scope), id) = NoDoc)
              => FindOne(CollAfter(scope), id) = NoDoc]_vars

\* an edit-save passed its checks, the record was deleted, then it wrote
C20_Witness ==
    \E t \in Tasks :
        /\ Answered(t, EditHandlers)
        /\ tasks[t].status = "303"
        /\ FindOne(tasks[t].before.blog_entries, tasks[t].id) = NoDoc
        /\ tasks[t].scope = "blog"
        /\ FindOne(blog_entries, tasks[t].id) = NoDoc

-----------------------------------------------------------------------------
(* C21: the author field of a record (uploaded_by of a photo, author_email   *)
(* of a blog entry or an activity) is the email of the principal whose       *)
(* create stored the record, and no step of an edit-save, a publish, a       *)
(* toggle or a change of permissions, by the author, by a manager or by an   *)
(* admin, gives an existing record another author.  Ids are handed out once, *)
(* so in every reachable state the author of a record is its creator.        *)

C21_AuthorIsCreator ==
    [][\A scope \in Scopes, id \in Ids :
          LET b == FindOne(Coll(scope), id)
              a == FindOne(CollAfter(scope), id)
          IN a # NoDoc =>
                IF b = NoDoc
                THEN req.handler \in CreateHandlers /\ AuthorOf(scope, a) = req.session
                ELSE AuthorOf(scope, a) = AuthorOf(scope, b)]_vars

\* an admin who is not the author has rewritten a member's blog entry
C21_Witness ==
    /\ Served({"blog_edit_submit", "activities_edit_submit"})
    /\ req.session = ADMIN_EMAIL
    /\ resp.status = "303"
    /\ TargetBefore # NoDoc
    /\ Target # TargetBefore
    /\ Target.author_email \in Members

-----------------------------------------------------------------------------
(* C22: the date override of an edit-save follows canManageScope.  When the  *)
(* edit-save of a blog entry or an activity carries a published_at date and  *)
(* is accepted, the record's published_at is that date if the principal is   *)
(* admin or holds the base permission of the scope, and is what it was       *)
(* before for anybody else.                                                  *)

C22_DateOverride ==
    (/\ Served({"blog_edit_submit", "activities_edit_submit"})
     /\ resp.status = "303"
     /\ req.date # "none"
     /\ TargetBefore # NoDoc) =>
        /\ Target # NoDoc
        /\ Target.published_at =
              IF Manages(req.session, req.scope) THEN ParseDate(req.date)
              ELSE TargetBefore.published_at

-----------------------------------------------------------------------------
(* C23: when an admin's approve of a pending registration that holds no      *)
(* password hash has ended, the approval is complete: a User exists with the *)
(* request's email, the hash of the temporary password, is_admin false and   *)
(* the six flags false, the pending registration no longer exists, a warning *)
(* was logged and the answer is the usual redirect, not an error.            *)

C23_ApproveWithoutHash ==
    \A t \in Tasks :
        (/\ Answered(t, {"admin_approve"})
         /\ tasks[t].found # NoDoc
         /\ tasks[t].found.password_hash = "none") =>
            LET user == users[tasks[t].found.email] IN
            /\ user # NoDoc
            /\ Get(user, "password_hash") = Hash("temporal")
            /\ user.is_admin = "false"
            /\ user.permissions = [kind |-> "map", map |-> NoFlags]
            /\ FindOne(pending_registrations, tasks[t].id) = NoDoc
            /\ tasks[t].warned
            /\ tasks[t].status = "303"

-----------------------------------------------------------------------------
(* C24: approve and reject of a pending registration, permission update and  *)
(* user deletion are performed for an admin only.  Asked for by anybody else *)
(* (a member holding any combination of the six flags, a session that        *)
(* resolves to no user, a request without session) the action leaves the     *)
(* users and the pending registrations as they were and is never answered as *)
(* done; the route answers 403 (a request without session does not get as    *)
(* far as the route: the construction guard answers it).                     *)

-----------------------------------------------------------------------------
(* C25: the notification is fire-and-forget.  Whatever send_email does once  *)
(* a handler of the admission flow calls it (it skips the send because no    *)
(* SMTP host is configured, it sends, or the send fails), an approve ends    *)
(* with the User of the request's email in store and the pending record      *)
(* deleted, and a signup ends with the pending record of its email in store. *)

C25_NotificationIsBestEffort ==
    \A t \in Tasks :
        /\ (Answered(t, {"admin_approve"}) /\ tasks[t].mail # "none") =>
              /\ users[tasks[t].found.email] # NoDoc
              /\ FindOne(pending_registrations, tasks[t].id) = NoDoc
        /\ (Answered(t, {"register_submit"}) /\ tasks[t].mail # "none") =>
              FindByEmail(pending_registrations, tasks[t].email) # NoDoc

-----------------------------------------------------------------------------
(* C26: the admin override is never persisted.  A request that is not a      *)
(* change of permissions or a deletion of a user, made by the administrator  *)
(* or showing the administrator's profile, leaves the stored permissions of  *)
(* every user record as they were (a profile saved for the first time makes  *)
(* a record that holds no permissions); and the record handed to the         *)
(* normalization is, after the call, the stored record as it was, while the  *)
(* record returned for an admin carries the six flags true.                  *)

\* the permissions a user document holds
StoredPermissions(doc) == IF doc = NoDoc THEN [kind |-> "absent"] ELSE doc.permissions

C26_OverrideNotPersisted ==
    (phase = "served"
        /\ req.handler \notin {"admin_update_permissions", "admin_user_delete"}) =>
        /\ \A e \in Emails :
              \/ StoredPermissions(users[e]) = StoredPermissions(resp.before.users[e])
              \/ /\ req.handler = "profile_update"
                 /\ resp.before.users[e] = NoDoc
                 /\ StoredPermissions(users[e]) = [kind |-> "none"]
        /\ out.fn = "_normalize_user" =>
              /\ raw = EnsuredProfile(get_current_user(req.session))
              /\ Truthy(raw.is_admin) =>
                    out.user.permissions.map = [key \in PERMISSION_KEYS |-> "true"]

\* the administrator's profile page: the stored record holds no permissions,
\* the normalized one holds them all
C26_Witness ==
    /\ Served({"profile"})
    /\ req.session = ADMIN_EMAIL
    /\ users[ADMIN_EMAIL] # NoDoc
    /\ raw = users[ADMIN_EMAIL]
    /\ raw.permissions = [kind |-> "none"]
    /\ out.user.permissions.map = [key \in PERMISSION_KEYS |-> "true"]

-----------------------------------------------------------------------------
(* C27: a denied edit-save, publish, toggle or delete of an existing record  *)
(* is terminal.  A request the rules deny (edit-save and owner's delete      *)
(* without canEdit, publish, toggle and console delete without               *)
(* canManageScope) is never answered as done; and a request that is not      *)
(* answered as done leaves the record in store with every field as it was,   *)
(* leaves every collection as it was, and is answered 403 once it has got as *)
(* far as the route.                                                         *)

\* the handlers that write or delete an existing record
RecordWriters ==
    EditHandlers \union PublishHandlers \union OwnerDeleteHandlers
        \union {"content_toggle_visibility", "content_delete"}

\* the rule of the specification for the request served
Permitted ==
    IF req.handler \in EditHandlers \union OwnerDeleteHandlers
    THEN MayEdit(req.session, req.scope, AuthorOf(req.scope, TargetBefore))
    ELSE Manages(req.session, req.scope)

-----------------------------------------------------------------------------
(* C28: actions on distinct records never interact.  In every step of every  *)
(* interleaving of edit-saves, publishes, toggles and deletes, a record that *)
(* the step changes or removes is the record, by scope and id, that the      *)
(* handler taking the step was asked for: every other record, of the same    *)
(* scope and of the other scopes, is after the step what it was before.      *)

C28_DistinctRecordsNeverInteract ==
    [][\A scope \in Scopes, id \in RecordIds :
          FindOne(CollAfter(scope), id) # FindOne(Coll(scope), id) =>
              \E t \in Tasks :
                  /\ tasks'[t].pc = "done"
                  /\ tasks'[t].scope = scope
                  /\ tasks'[t].id = id]_vars

\* an edit-save wrote its record while another handler was between its read
\* and its write of another record of the same scope, which is as it was stored
C28_Witness ==
    \E t \in Tasks, u \in Tasks :
        /\ Answered(t, EditHandlers)
        /\ tasks[t].status = "303"
        /\ tasks[u].pc \in {"update", "delete_one"}
        /\ tasks[u].scope = tasks[t].scope
        /\ tasks[u].id # tasks[t].id
        /\ FindOne(Coll(tasks[t].scope), tasks[t].id)
              # FindOne(tasks[t].before[IF tasks[t].scope = "photos" THEN "photos"
                                        ELSE IF tasks[t].scope = "blog" THEN "blog_entries"
                                        ELSE "activities"], tasks[t].id)
        /\ FindOne(Coll(tasks[u].scope), tasks[u].id)
              = StoredRecord(tasks[u].scope, "ana@cd", TRUE)

-----------------------------------------------------------------------------
(* C29: when a user who holds none of the six permission flags submits a     *)
(* photo with intent "publish", a photo record is stored, hidden.            *)

C29_NoFlagsUploadIsDraft ==
    (/\ Served({"astrofotos_upload"})
     /\ IsPrincipal(req.session)
     /\ ~IsAdmin(req.session)
     /\ \A key \in PERMISSION_KEYS : ~Flag(req.session, key)
     /\ req.arg = "publish") =>
        /\ resp.status = "303"
        /\ FindOne(resp.before.photos, resp.created) = NoDoc
        /\ FindOne(photos, resp.created) # NoDoc
        /\ FindOne(photos, resp.created).is_hidden

-----------------------------------------------------------------------------
C30_Refused ==
    /\ Served(CreateFormHandlers)
    /\ req.session \in Members
    /\ ~HoldsAny(req.session, req.scope)
    /\ \E key \in PERMISSION_KEYS : Flag(req.session, key)
    /\ resp.status = "403"

-----------------------------------------------------------------------------
(* C31: permission evaluation never fails: for every stored user record,     *)
(* whatever its permissions field holds (absent, None, a dict with           *)
(* wrong-typed values, a value that is no dict at all), normalization and    *)
(* every permission check return a result, and a non-admin record whose      *)
(* permissions are no dict gets every flag false and every check denied.     *)
C31_PermissionsNeverRaise ==
    out.fn \in {"_normalize_user", "checks"} =>
        /\ ~out.error
        /\ (/\ raw.kind = "doc"
            /\ ~Truthy(raw.is_admin)
            /\ raw.permissions.kind # "map") =>
              /\ out.fn = "_normalize_user" =>
                    out.user.permissions.map = [key \in PERMISSION_KEYS |-> "false"]
              /\ out.fn = "checks" =>
                    ~out.has /\ ~out.supervised /\ ~out.any /\ ~out.manage

-----------------------------------------------------------------------------
(* C32: a request is treated as coming from an admin (it passes              *)
(* require_admin) only if its session was established with the configured    *)
(* admin credentials or the stored user record of the session email has      *)
(* is_admin true; in particular a user created by approving a registration   *)
(* never passes, whatever email the registration used.                       *)
C32_AdminOnlyByCredentialsOrFlag ==
    \A t \in Tasks :
        (/\ Answered(t, {"admin_delete"})
         /\ tasks[t].session = cookie.user_email
         /\ tasks[t].status = "303") =>
            \/ cookie.via = "admin"
            \/ /\ users[cookie.user_email] # NoDoc
               /\ users[cookie.user_email].is_admin = "true"

-----------------------------------------------------------------------------
(* C33: the existence of a hidden record cannot be observed by somebody not  *)
(* authorized: for a logged-in principal who neither manages the scope nor   *)
(* is the author, the view, the edit form, the edit-save and the owner's     *)
(* delete answer on the id of a hidden record exactly what they answer on an *)
(* id that does not exist, which is not found, showing and changing nothing. *)
C33_HiddenLooksAbsent ==
    (/\ Served(DetailHandlers \union EditFormHandlers \union EditHandlers
                    \union OwnerDeleteHandlers)
     /\ IsPrincipal(req.session)
     /\ ~Manages(req.session, req.scope)
     /\ \/ TargetBefore = NoDoc
        \/ /\ TargetBefore.is_hidden
           /\ AuthorOf(req.scope, TargetBefore) # req.session) =>
        /\ resp.status = "404"
        /\ resp.seen = {}
        /\ Store = resp.before

-----------------------------------------------------------------------------
(* C34: when an approve that found its pending registration has ended (and   *)
(* its notification did not fail), that pending record is gone, whatever the *)
(* users collection held, a user with the same email included.               *)
C34_ApproveRemovesPending ==
    \A t \in Tasks :
        (/\ Answered(t, {"admin_approve"})
         /\ tasks[t].found # NoDoc
         /\ tasks[t].mail # "raised") =>
            FindOne(pending_registrations, tasks[t].id) = NoDoc

-----------------------------------------------------------------------------
(* C35: no two user records ever share an email: every insert into db.users  *)
(* that succeeds is for an email no stored user holds, also when two         *)
(* approves of the same pending request run concurrently (both read the      *)
(* record before either deletes it) and when the user is created by the      *)
(* temporary-password fallback.                                              *)
C35_UserEmailsUnique ==
    [][\A t \in Tasks :
          (/\ tasks[t].pc = "insert"
           /\ tasks[t].handler = "admin_approve"
           /\ tasks'[t].pc = "delete") =>
              /\ users[tasks[t].found.email] = NoDoc
              /\ \A email \in Emails \ {tasks[t].found.email} : users'[email] = users[email]
    ]_vars

\* two approves read the same hashless request; one has created the user with
\* the temporary password, the other has just been refused by the index
C35_Witness ==
    \E t \in Tasks, u \in Tasks :
        /\ t # u
        /\ Answered(t, {"admin_approve"})
        /\ tasks[t].status = "500"
        /\ tasks[t].warned
        /\ tasks[u].pc = "delete"
        /\ tasks[u].handler = "admin_approve"
        /\ tasks[u].id = tasks[t].id
        /\ Get(users[tasks[t].found.email], "password_hash") = Hash("temporal")

-----------------------------------------------------------------------------
(* C36: at most one registration is pending per email in every state, also   *)
(* when two signups of one email run concurrently and both pass the check    *)
(* for an existing request before either inserts; the signup that loses      *)
(* stores nothing.                                                           *)
C36_OnePendingPerEmail ==
    /\ \A i \in RequestIds, j \in RequestIds :
          (/\ i # j
           /\ pending_registrations[i] # NoDoc
           /\ pending_registrations[j] # NoDoc) =>
              pending_registrations[i].email # pending_registrations[j].email
    /\ \A t \in Tasks :
          (/\ Answered(t, {"register_submit"})
           /\ tasks[t].mail = "none") =>
              pending_registrations = tasks[t].before.pending_registrations

\* a signup that found no request of its email has lost against a concurrent
\* signup of the same email
C36_Witness ==
    \E t \in Tasks :
        /\ Answered(t, {"register_submit"})
        /\ tasks[t].notice = "none"
        /\ tasks[t].found = NoDoc
        /\ tasks[t].status = "500"
        /\ tasks[t].mail = "none"
        /\ FindByEmail(pending_registrations, tasks[t].email) # NoDoc

-----------------------------------------------------------------------------
(* C37: a change of permissions takes effect on the next request: whatever   *)
(* a member's session was allowed before, every request it makes is decided  *)
(* by the flags stored when the request is handled (without the base flag of *)
(* the scope nothing is published, toggled, deleted through the console or   *)
(* listed there), and the session of a deleted member is treated as having   *)
(* no principal: it is refused everywhere, changes nothing and is shown no   *)
(* hidden record.                                                            *)
C37_ChangesTakeEffect ==
    (phase = "served" /\ req.session \in Members) =>
        /\ (/\ Served(PublishHandlers \union {"content_toggle_visibility", "content_delete"})
            /\ resp.status = "303") => Flag(req.session, req.scope)
        /\ (/\ Served(CreateHandlers)
            /\ resp.status = "303"
            /\ ~FindOne(Coll(req.scope), resp.created).is_hidden) =>
               Flag(req.session, req.scope)
        /\ (Served({"content_management"}) /\ resp.status = "200") =>
               /\ \E scope \in Scopes : Flag(req.session, scope)
               /\ \A id \in resp.seen :
                     \E scope \in Scopes : Flag(req.session, scope) /\ Holds(scope, id)
        /\ ~IsPrincipal(req.session) =>
               /\ Store = resp.before
               /\ Served(ContentWriters \union EditFormHandlers \union CreateFormHandlers
                            \union {"content_management", "profile"}) =>
                      resp.status \in {"403", "404"}
               /\ (/\ Served(DetailHandlers)
                   /\ TargetBefore # NoDoc
                   /\ TargetBefore.is_hidden) => resp.status = "404"
               /\ Served(ListHandlers) =>
                      \A id \in resp.seen, scope \in Scopes :
                          Holds(scope, id) => ~Coll(scope)[id].is_hidden

\* a member who created a record of a scope, and holds neither flag of the
\* scope any more, has been refused the publication of that record
C37_Witness ==
    /\ Served(PublishHandlers \union {"content_toggle_visibility"})
    /\ req.session \in Members
    /\ IsPrincipal(req.session)
    /\ ~HoldsAny(req.session, req.scope)
    /\ TargetBefore # NoDoc
    /\ AuthorOf(req.scope, TargetBefore) = req.session
    /\ TargetBefore.is_hidden
    /\ resp.status = "403"
    /\ Target = TargetBefore

\* a deleted member asks for the hidden record it created and gets not found
C37_Deleted ==
    /\ Served(DetailHandlers)
    /\ req.session \in Members
    /\ ~IsPrincipal(req.session)
    /\ TargetBefore # NoDoc
    /\ AuthorOf(req.scope, TargetBefore) = req.session
    /\ TargetBefore.is_hidden
    /\ resp.status = "404"

-----------------------------------------------------------------------------
(* C38: the deletion of a user is permanent: once admin_user_delete has      *)
(* removed a member, a user record with that email comes to exist again only *)
(* by the approval of a new registration; a profile update that resolved the *)
(* member before the deletion and writes after it re-creates nothing.        *)
C38_DeletionIsPermanent ==
    [][\A email \in Members :
          (users[email] = NoDoc /\ users'[email] # NoDoc) =>
              \E t \in Tasks :
                  /\ tasks[t].pc = "insert"
                  /\ tasks[t].handler = "admin_approve"
                  /\ tasks[t].found.email = email
                  /\ tasks'[t].pc = "delete"
    ]_vars

-----------------------------------------------------------------------------
(* C39: a request without session never reaches a handler of a content       *)
(* route: the construction guard answers it with the construction page, so   *)
(* it creates, changes, deletes and is shown no record.                      *)
C39_GuardStopsAnonymous ==
    (phase = "served" /\ req.session = "") =>
        /\ resp.status = "construction"
        /\ resp.seen = {}
        /\ resp.created = 0
        /\ Store = resp.before

\* a request without session for the page of a published record has been
\* answered with the construction page
C39_Witness ==
    /\ Served(DetailHandlers)
    /\ req.session = ""
    /\ TargetBefore # NoDoc
    /\ ~TargetBefore.is_hidden
    /\ resp.status = "construction"
    /\ resp.seen = {}

-----------------------------------------------------------------------------
(* C40: _can_edit_entry itself returns false for a user who is not admin and *)
(* holds neither the base nor the supervised flag of the scope, also when    *)
(* the author email is the user's own.                                       *)
C40_NoFlagsNoEdit ==
    (/\ out.fn = "checks"
     /\ ~out.error
     /\ raw.kind = "doc"
     /\ ~Truthy(raw.is_admin)
     /\ ~out.has
     /\ ~out.supervised) => ~out.edit

====
